---- MODULE Spec2Model ----
(***************************************************************************)
(* A model of agent.cpp: the incremental context cache of Model            *)
(* (src/src/model.cpp, and the earlier copy of the same class kept in      *)
(* src/unnamed/part_003) and the agent loop of Agent::run_loop             *)
(* (src/unnamed/part_004).                                                 *)
(*                                                                         *)
(* Several specifications share the module.  Spec drives one Model object  *)
(* of either copy of the class through generate and generate_from_tokens,  *)
(* with the llama.cpp context reduced to what the code reads and writes    *)
(* (the tokens held by the context memory and whether the logits belong to *)
(* them).  CacheSpec adds save_cache and load_cache of model.cpp,          *)
(* LimitSpec adds cache files written by another Model, and PromptSpec     *)
(* adds Agent::load_or_create_cache on top of CacheSpec.  AgentSpec        *)
(* drives one Agent object through run_loop, with the engine reduced to    *)
(* the message it returns; EditSpec is the same run_loop with hooks that   *)
(* rewrite every value they are given by reference.  LiveSpec is a         *)
(* run_loop that is never held up, for what it eventually does.            *)
(* SystemSpec applies the system-message step of run_loop to conversations *)
(* of every shape.  MCPSpec drives one MCPClient (src/src/mcp) and the     *)
(* requests it sends.  OAuthSpec drives one OAuthClientImpl                *)
(* (src/src/oauth) through get_token, with the handlers of its callback    *)
(* server as threads of their own.                                         *)
(***************************************************************************)
EXTENDS Integers, Sequences, FiniteSets, TLC

(***************************************************************************)
(* Bounds of the model.                                                    *)
(***************************************************************************)
\* llama_n_ctx(ctx): the context length (ModelConfig::n_ctx, scaled down)
N_CTX == 2
\* llama_n_batch(ctx): the batch size (ModelConfig::n_batch, scaled down)
N_BATCH == 1
\* longest token sequence handed to generate / generate_from_tokens
MaxLen == 3
\* number of callbacks registered with the Agent
NumCallbacks == 2
\* engine calls after which run_loop is followed no further
MaxTurns == 2
\* tool calls the engine emits within one run_loop, over all its turns
MaxToolCalls == 2
\* longest conversation handed to the system-message step of run_loop
MaxMsgs == 3

\* requests one MCPClient sends to its server in the life the model follows
MaxRequests == 3
\* pages a server splits its tool list into
MaxPages == 2

\* the token ids of the vocabulary that the sampler and the tokenizer yield
Tokens == {1, 2}

Min(a, b) == IF a < b THEN a ELSE b

\* all sequences over S of length 0..n
SeqUpTo(S, n) == UNION {[1..k -> S] : k \in 0..n}

\* the first n elements of s (std::vector::resize to a smaller size)
Take(s, n) == SubSeq(s, 1, n)

\* the elements of s after the first n
Drop(s, n) == SubSeq(s, n + 1, Len(s))

IsPrefix(p, s) == Len(p) <= Len(s) /\ Take(s, Len(p)) = p

\* the two copies of class Model in the repository
Impls == {"model_cpp", "part_003"}

(***************************************************************************)
(* State of one Model object and of the llama.cpp context it owns.         *)
(***************************************************************************)
VARIABLES
    impl,              \* which copy of Model::generate_from_tokens runs
    processed_tokens,  \* Model::processed_tokens_
    n_past,            \* Model::n_past_
    kv,                \* tokens held by the context memory, sequence 0
    logits_current,    \* the logits come from a decode ending on kv's last token
    file,              \* the cache file: absent, corrupt or a saved state
    pc,                \* position inside generate_from_tokens, or "idle"
    all_tokens,        \* argument of the running/last generate_from_tokens
    common_prefix,     \* local of generate_from_tokens
    i,                 \* local of generate_from_tokens
    response,          \* local of generate_from_tokens (list of pieces)
    has_callback,      \* whether a streaming callback was passed
    last_op,           \* the operation that ran last
    status,            \* "none", "running", "ok" or "error"
    err,               \* message of the ModelError thrown, "" if none
    ret,               \* token vector returned by load_cache
    \* history variables (read by no guard)
    A0,                \* processed_tokens when the call started
    fed,               \* batches handed to llama_decode during catch-up
    stream,            \* pieces delivered to the streaming callback
    saved              \* the Model state at the last successful save_cache

mvars == <<impl, processed_tokens, n_past, kv, logits_current, file, pc, all_tokens,
           common_prefix, i, response, has_callback, last_op, status, err,
           ret, A0, fed, stream, saved>>

n_ctx == N_CTX

\* llama.cpp clamps the batch size of a context to its context length
n_batch == Min(N_BATCH, N_CTX)

(***************************************************************************)
(* model.cpp:202-208: the element-wise scan for the common prefix.         *)
(***************************************************************************)
RECURSIVE ScanFrom(_, _, _)
ScanFrom(a, b, k) ==
    IF k < Len(a) /\ k < Len(b) /\ a[k + 1] = b[k + 1]
    THEN ScanFrom(a, b, k + 1)
    ELSE k

\* a variant in which the elements are not compared: the cache is taken
\* to be a prefix of the new tokens, or the new tokens one of the cache
CommonPrefixByLength(a, b) == Min(Len(a), Len(b))

\* a variant that stops one element short of the common prefix
CommonPrefixLessOne(a, b) ==
    IF ScanFrom(a, b, 0) > 0 THEN ScanFrom(a, b, 0) - 1 ELSE ScanFrom(a, b, 0)

CommonPrefixScan(a, b) == ScanFrom(a, b, 0)

\* a cache file that does not exist, and one that cannot be read back
NoFile ==
    [state |-> "none", tokens |-> <<>>, kv |-> <<>>, logits_current |-> FALSE]
CorruptFile ==
    [state |-> "corrupt", tokens |-> <<>>, kv |-> <<>>,
     logits_current |-> FALSE]

\* no save_cache has succeeded yet
NotSaved ==
    [valid |-> FALSE, tokens |-> <<>>, n_past |-> 0, kv |-> <<>>,
     logits_current |-> FALSE]

\* a variant in which the context memory is not told to forget anything
SeqRmNone(mem, p) == mem

\* llama_memory_seq_rm(mem, 0, p, -1): forget every position >= p
SeqRm(mem, p) == IF p < Len(mem) THEN Take(mem, p) ELSE mem

MInit ==
    /\ impl \in Impls
    /\ processed_tokens = <<>>
    /\ n_past = 0
    /\ kv = <<>>
    /\ logits_current = FALSE
    /\ file = NoFile
    /\ pc = "idle"
    /\ all_tokens = <<>>
    /\ common_prefix = 0
    /\ i = 0
    /\ response = <<>>
    /\ has_callback = FALSE
    /\ last_op = "create"
    /\ status = "none"
    /\ err = ""
    /\ ret = <<>>
    /\ A0 = <<>>
    /\ fed = <<>>
    /\ stream = <<>>
    /\ saved = NotSaved


(***************************************************************************)
(* State of one Agent object and of the run_loop call in progress.         *)
(***************************************************************************)
VARIABLES
    instructions,      \* Agent::instructions
    recovery_at,       \* index in Agent::callbacks of the
                       \* ErrorRecoveryCallback, 0 if it is not registered
    apc,               \* position inside run_loop; "idle" before, "done" after
    cbi,               \* index of the callback the running hook chain is at
    messages,          \* the caller's message list
    parsed_msg,        \* local of run_loop: the assistant message of the turn
    turn,              \* engine calls made by this run_loop
    emitted,           \* tool calls the engine emitted in this run_loop
    tc,                \* index in parsed_msg.tool_calls of the running call
    tool_name,         \* local of run_loop
    tool_arguments,    \* local of run_loop
    result,            \* local of run_loop: the ToolResult
    tool_skipped,      \* local of run_loop
    outcome,           \* how run_loop ended: the response or the exception
    lpc,               \* position inside load_or_create_cache, or "idle"
    lret,              \* how load_or_create_cache ended: its result or the
                       \* exception
    prompt_tokens,     \* local of load_or_create_cache, empty outside it
    \* history variables (read by no guard)
    events,            \* hooks, engine calls and appends of the current turn
    call_events,       \* what the loop did for the current tool call
    as_hooked          \* the name and the arguments of the current tool call
                       \* as the before_tool_execution hooks left them

avars == <<instructions, recovery_at, apc, cbi, messages, parsed_msg, turn, emitted, tc,
           tool_name, tool_arguments, result, tool_skipped, outcome, lpc, lret,
           prompt_tokens, events, call_events, as_hooked>>

(***************************************************************************)
(* State of one MCPClient object.                                          *)
(***************************************************************************)
VARIABLES
    initialized,       \* MCPClient::initialized_
    has_tools,         \* MCPClient::has_tools_
    tools_cached,      \* MCPClient::tools_cached_
    tool_cache,        \* MCPClient::tool_cache_ (the names of the tools)
    session_id,        \* MCPClient::session_id_
    request_id,        \* MCPClient::request_id_
    \* history variables (read by no guard)
    sent,              \* what the last operation posted to the server
    answers,           \* what the server answered to the tools/list requests
                       \* of the last operation
    mcp_ret            \* how the last operation ended: its result or the
                       \* exception

cvars == <<initialized, has_tools, tools_cached, tool_cache, session_id,
           request_id, sent, answers, mcp_ret>>

(***************************************************************************)
(* State of one OAuthClientImpl object, of its token storage and of the    *)
(* get_token call in progress.                                             *)
(***************************************************************************)
VARIABLES
    now,               \* std::chrono::system_clock::now()
    cached_token,      \* OAuthClientImpl::cached_token_
    stored,            \* the token the storage holds for the provider
    opc,               \* position inside get_token; "idle" outside it
    cached,            \* local of get_token: what the storage gave
    state,             \* local of perform_auth_flow
    done,              \* local of perform_auth_flow (atomic)
    received_code,     \* local of perform_auth_flow
    received_state,    \* local of perform_auth_flow
    error_msg,         \* local of perform_auth_flow
    mtx,               \* local of perform_auth_flow: the handler that holds
                       \* the mutex, 0 if it is free
    hpc,               \* position of each callback handler
    hreq,              \* the request each callback handler was called with
    \* history variables (read by no guard)
    replies,           \* the content each callback handler has answered with
    first_callback,    \* the callback that was recorded: handler, request
    posted,            \* the requests this get_token posted to the token
                       \* endpoint, with their answers
    url_shown,         \* this get_token has called auth_url_callback
    oret               \* how get_token ended: its result or the exception

ovars == <<now, cached_token, stored, opc, cached, state, done, received_code,
           received_state, error_msg, mtx, hpc, hreq, replies, first_callback,
           posted, url_shown, oret>>

vars == <<mvars, avars, cvars, ovars>>

\* what the Agent is constructed with
config == <<instructions, recovery_at>>

\* the load_or_create_cache call of the Agent
loc == <<lpc, lret, prompt_tokens>>

(***************************************************************************)
(* Model::generate_from_tokens, model.cpp:193-277 and part_003:136-222.    *)
(***************************************************************************)

\* the Model object and the context it owns
cache == <<processed_tokens, n_past, kv, logits_current>>

\* the locals of a generate_from_tokens call and their history
locals == <<all_tokens, common_prefix, i, A0, fed>>

\* what the caller is left with: the returned text, the streamed pieces
output == <<response, has_callback, stream>>

\* the call is over and its locals go out of scope: it has returned
\* (status "ok") or thrown a ModelError with message e (status "error")
Finish(st, e) ==
    /\ pc' = "idle"
    /\ status' = st
    /\ err' = e
    /\ all_tokens' = <<>>
    /\ common_prefix' = 0
    /\ i' = 0
    /\ A0' = <<>>
    /\ fed' = <<>>

\* model.cpp:219, 242: the catch-up loop runs while i < all_tokens.size(),
\* then the generation loop starts
LoopAt(k, B) == IF k < Len(B) THEN "catchup" ELSE "sample"

\* model.cpp:197-218: entry, the common-prefix scan and, if the cache
\* diverges from the new tokens, forgetting the engine state from the
\* divergence point on, truncating processed_tokens_ and resetting n_past_
Enter(op, B, cb) ==
    /\ pc = "idle"
    /\ last_op' = op
    /\ status' = "running"
    /\ err' = ""
    /\ ret' = <<>>
    /\ all_tokens' = B
    /\ has_callback' = cb
    /\ response' = <<>>
    /\ common_prefix' = CommonPrefixScan(processed_tokens, B)
    /\ IF common_prefix' < Len(processed_tokens)
       THEN /\ kv' = SeqRm(kv, common_prefix')
            /\ logits_current' = (logits_current /\ kv' = kv)
            /\ processed_tokens' = Take(processed_tokens, common_prefix')
            /\ n_past' = common_prefix'
       ELSE UNCHANGED <<kv, logits_current, processed_tokens, n_past>>
    /\ i' = common_prefix'
    /\ pc' = LoopAt(i', B)
    /\ A0' = processed_tokens
    /\ fed' = <<>>
    /\ stream' = <<>>
    /\ UNCHANGED <<impl, file, saved>>

\* a direct call of the public generate_from_tokens
GftCall(B, cb) ==
    /\ Enter("generate_from_tokens", B, cb)
    /\ UNCHANGED <<avars, cvars, ovars>>

\* model.cpp:174-180: generate tokenizes the templated prompt (B is the
\* tokenizer's result) and calls generate_from_tokens
GenerateCall(B, cb) ==
    /\ B # <<>>
    /\ Enter("generate", B, cb)
    /\ UNCHANGED <<avars, cvars, ovars>>

\* model.cpp:176-178 throws on an empty token vector;
\* part_003:119-122 prints and returns an empty message
GenerateTokenizeFail ==
    /\ pc = "idle"
    /\ last_op' = "generate"
    /\ IF impl = "model_cpp"
       THEN Finish("error", "failed to tokenize prompt")
       ELSE Finish("ok", "")
    /\ ret' = <<>>
    /\ response' = <<>>
    /\ has_callback' = FALSE
    /\ stream' = <<>>
    /\ UNCHANGED <<impl, cache, file, saved>>
    /\ UNCHANGED <<avars, cvars, ovars>>

\* model.cpp:220
batch_size == Min(Len(all_tokens) - i, n_batch)

\* model.cpp:226-227
batch_tokens == SubSeq(all_tokens, i + 1, i + batch_size)

\* model.cpp:222-224 throws when the batch does not fit;
\* part_003:165-168 prints and returns the (empty) response
CatchupOverflow ==
    /\ pc = "catchup"
    /\ n_past + batch_size > n_ctx
    /\ IF impl = "model_cpp"
       THEN Finish("error", "context size exceeded")
       ELSE Finish("ok", "")
    /\ UNCHANGED <<impl, cache, file, output, last_op, ret, saved>>
    /\ UNCHANGED <<avars, cvars, ovars>>

\* model.cpp:226-239: decode one batch and record it
CatchupDecode ==
    /\ pc = "catchup"
    /\ ~(n_past + batch_size > n_ctx)
    /\ fed' = fed \o batch_tokens
    /\ kv' = kv \o batch_tokens
    /\ logits_current' = TRUE
    /\ n_past' = n_past + Len(batch_tokens)
    /\ processed_tokens' = processed_tokens \o batch_tokens
    /\ i' = i + batch_size
    /\ pc' = LoopAt(i', all_tokens)
    /\ UNCHANGED <<impl, file, all_tokens, common_prefix, A0, output,
                   last_op, status, err, ret, saved>>
    /\ UNCHANGED <<avars, cvars, ovars>>

\* model.cpp:232-234, part_003:176-178: llama_decode fails; the exception
\* leaves the loop before n_past_ and processed_tokens_ are touched.  The
\* context memory is taken to be as it was before the failed call.
CatchupDecodeFail ==
    /\ pc = "catchup"
    /\ ~(n_past + batch_size > n_ctx)
    /\ Finish("error", IF impl = "model_cpp" THEN "failed to decode batch"
                                             ELSE "failed to decode")
    /\ UNCHANGED <<impl, cache, file, output, last_op, ret, saved>>
    /\ UNCHANGED <<avars, cvars, ovars>>

\* llama_token_to_piece: the text of a token
Piece(t) == [piece |-> t]

\* model.cpp:244-248, 276: the sampler yields an end-of-generation token
SampleEog ==
    /\ pc = "sample"
    /\ Finish("ok", "")
    /\ UNCHANGED <<impl, cache, file, output, last_op, ret, saved>>
    /\ UNCHANGED <<avars, cvars, ovars>>

\* model.cpp:250-255: llama_token_to_piece fails on the sampled token
SamplePieceFail ==
    /\ pc = "sample"
    /\ Finish("error", "failed to convert token to piece")
    /\ UNCHANGED <<impl, cache, file, output, last_op, ret, saved>>
    /\ UNCHANGED <<avars, cvars, ovars>>

\* a variant in which the piece joins the response only
DeliverToResponseOnly(t) ==
    /\ response' = Append(response, Piece(t))
    /\ UNCHANGED <<has_callback, stream>>

\* model.cpp:258-261: the piece goes to the callback and to the response
Deliver(t) ==
    /\ stream' = IF has_callback THEN Append(stream, Piece(t)) ELSE stream
    /\ response' = Append(response, Piece(t))
    /\ UNCHANGED has_callback

\* a variant that decodes and records the token although the context is
\* full
SampleOverflowDecodes(t) ==
    /\ pc = "sample"
    /\ Deliver(t)
    /\ n_past + 1 > n_ctx
    /\ kv' = Append(kv, t)
    /\ logits_current' = TRUE
    /\ n_past' = n_past + 1
    /\ processed_tokens' = Append(processed_tokens, t)
    /\ UNCHANGED <<impl, file, pc, locals, last_op, status, err, ret, saved>>
    /\ UNCHANGED <<avars, cvars, ovars>>

\* model.cpp:263-265 throws when the context is full;
\* part_003:207-210 prints, leaves the loop and returns the response
SampleOverflow(t) ==
    /\ pc = "sample"
    /\ Deliver(t)
    /\ n_past + 1 > n_ctx
    /\ IF impl = "model_cpp"
       THEN Finish("error", "context size exceeded during generation")
       ELSE Finish("ok", "")
    /\ UNCHANGED <<impl, cache, file, last_op, ret, saved>>
    /\ UNCHANGED <<avars, cvars, ovars>>

\* model.cpp:267-273: decode the sampled token and record it
SampleDecode(t) ==
    /\ pc = "sample"
    /\ Deliver(t)
    /\ ~(n_past + 1 > n_ctx)
    /\ kv' = Append(kv, t)
    /\ logits_current' = TRUE
    /\ n_past' = n_past + 1
    /\ processed_tokens' = Append(processed_tokens, t)
    /\ UNCHANGED <<impl, file, pc, locals, last_op, status, err, ret, saved>>
    /\ UNCHANGED <<avars, cvars, ovars>>

\* a variant in which the token is recorded although its decode failed
SampleDecodeFailRecorded(t) ==
    /\ pc = "sample"
    /\ Deliver(t)
    /\ ~(n_past + 1 > n_ctx)
    /\ Finish("error", "failed to decode token")
    /\ n_past' = n_past + 1
    /\ processed_tokens' = Append(processed_tokens, t)
    /\ UNCHANGED <<impl, kv, logits_current, file, last_op, ret, saved>>
    /\ UNCHANGED <<avars, cvars, ovars>>

\* model.cpp:268-270, part_003:213-215: the single-token decode fails
SampleDecodeFail(t) ==
    /\ pc = "sample"
    /\ Deliver(t)
    /\ ~(n_past + 1 > n_ctx)
    /\ Finish("error", IF impl = "model_cpp" THEN "failed to decode token"
                                             ELSE "failed to decode")
    /\ UNCHANGED <<impl, cache, file, last_op, ret, saved>>
    /\ UNCHANGED <<avars, cvars, ovars>>

(***************************************************************************)
(* Model::save_cache and Model::load_cache, model.cpp:279-306.  The older  *)
(* copy of the class has neither.                                          *)
(***************************************************************************)

\* save_cache and load_cache have no streamed output
NoOutput ==
    /\ response' = <<>>
    /\ has_callback' = FALSE
    /\ stream' = <<>>

\* a variant in which the token list is not written with the state
SavedFileNoTokens ==
    [state |-> "ok", tokens |-> <<>>, kv |-> kv,
     logits_current |-> logits_current]

\* llama_state_save_file writes the engine state and the token list
SavedFile ==
    [state |-> "ok", tokens |-> processed_tokens, kv |-> kv,
     logits_current |-> logits_current]

\* model.cpp:279-286: llama_state_save_file returns true
save_cache_true ==
    /\ pc = "idle"
    /\ impl = "model_cpp"
    /\ last_op' = "save_cache"
    /\ Finish("ok", "")
    /\ file' = SavedFile
    /\ saved' = [valid |-> TRUE, tokens |-> processed_tokens,
                 n_past |-> n_past, kv |-> kv,
                 logits_current |-> logits_current]
    /\ ret' = <<>>
    /\ NoOutput
    /\ UNCHANGED <<impl, cache>>

\* a direct call of the public save_cache
SaveCache ==
    /\ save_cache_true
    /\ UNCHANGED <<avars, cvars, ovars>>

\* model.cpp:282: llama_state_save_file returns false; the file is as it
\* was or is left incomplete (and then holds no saved state any more)
save_cache_false ==
    /\ pc = "idle"
    /\ impl = "model_cpp"
    /\ last_op' = "save_cache"
    /\ Finish("error", "")
    /\ file' \in {file, CorruptFile}
    /\ saved' = IF file' = CorruptFile THEN NotSaved ELSE saved
    /\ ret' = <<>>
    /\ NoOutput
    /\ UNCHANGED <<impl, cache>>

SaveCacheFail ==
    /\ save_cache_false
    /\ UNCHANGED <<avars, cvars, ovars>>

\* model.cpp:292: the buffer handed to llama_state_load_file, n_ctx long
\* and zero-filled, with the file's tokens copied to its front
LoadBuffer(toks) == toks \o [k \in 1..(n_ctx - Len(toks)) |-> 0]

\* a variant in which the position is not moved with the tokens
set_cache_state_tokens_only(tokens) ==
    /\ processed_tokens' = tokens
    /\ UNCHANGED n_past

\* model.h:175-179
set_cache_state(tokens) ==
    /\ processed_tokens' = tokens
    /\ n_past' = Len(tokens)

\* model.cpp:288-306, llama_state_load_file succeeds: the engine state is
\* replaced, the buffer is cut to the token count and becomes the cache
load_cache_loaded ==
    /\ pc = "idle"
    /\ impl = "model_cpp"
    /\ file.state = "ok"
    /\ Len(file.tokens) <= n_ctx
    /\ last_op' = "load_cache"
    /\ Finish("ok", "")
    /\ kv' = file.kv
    /\ logits_current' = file.logits_current
    /\ LET tokens == Take(LoadBuffer(file.tokens), Len(file.tokens))
       IN  /\ set_cache_state(tokens)
           /\ ret' = tokens
    /\ NoOutput
    /\ UNCHANGED <<impl, file, saved>>

\* a direct call of the public load_cache
LoadCache ==
    /\ load_cache_loaded
    /\ UNCHANGED <<avars, cvars, ovars>>

\* a variant in which the failed load still adopts the (empty) buffer
LoadCacheFailAdopts ==
    /\ pc = "idle"
    /\ impl = "model_cpp"
    /\ last_op' = "load_cache"
    /\ Finish("error", "")
    /\ ret' = <<>>
    /\ NoOutput
    /\ set_cache_state(<<>>)
    /\ UNCHANGED <<impl, kv, logits_current, file, saved>>
    /\ UNCHANGED <<avars, cvars, ovars>>

\* model.cpp:295-301: llama_state_load_file returns false (no file, more
\* tokens than the buffer holds, a file it cannot read back); load_cache
\* returns an empty vector before set_cache_state is reached.  The context
\* memory is taken to be as it was before the failed call.
load_cache_not_loaded ==
    /\ pc = "idle"
    /\ impl = "model_cpp"
    /\ last_op' = "load_cache"
    /\ Finish("error", "")
    /\ ret' = <<>>
    /\ NoOutput
    /\ UNCHANGED <<impl, cache, file, saved>>

LoadCacheFail ==
    /\ load_cache_not_loaded
    /\ UNCHANGED <<avars, cvars, ovars>>

\* the token lists of cache files that another Model object has saved:
\* as long as the context of this one and one token longer
OtherFiles ==
    {[state |-> "ok", tokens |-> [k \in 1..n |-> 1],
      kv |-> [k \in 1..n |-> 1], logits_current |-> TRUE] :
        n \in {n_ctx, n_ctx + 1}}

\* model.cpp:279-286 in a Model object with a longer context: the file at
\* the cache path is replaced by one that object saved
OtherModelSaves(f) ==
    /\ pc = "idle"
    /\ file # f
    /\ file' = f
    /\ saved' = NotSaved
    /\ UNCHANGED <<impl, cache, pc, locals, output, last_op, status, err, ret>>
    /\ UNCHANGED <<avars, cvars, ovars>>

Inputs == SeqUpTo(Tokens, MaxLen)

(***************************************************************************)
(* Agent::run_loop, part_004:50-146.  The engine call model->generate is   *)
(* reduced to its result: an assistant message or a ModelError.  A hook is *)
(* reduced to what it does to the arguments the loop passes by reference.  *)
(***************************************************************************)

\* the names the engine may put in a tool call; Agent::tools holds one tool
ToolNames == {"calculator", "foo"}
Registry == {"calculator"}

\* the arguments texts the engine may emit; json::parse accepts the first
ArgTexts == {"{\"a\":3}", "{\"a\":"}
ParsesAsJson(text) == text = "{\"a\":3}"

Callbacks == 1..NumCallbacks

\* message contents and ToolResult outputs: a text, or the dump of a JSON
\* object with one key
Text(t) == [json |-> "", text |-> t]
Json(key, t) == [json |-> key, text |-> t]

Msg(role, content, calls, id, name) ==
    [role |-> role, content |-> content, tool_calls |-> calls,
     tool_call_id |-> id, tool_name |-> name]

NoMsg == Msg("", Text(""), <<>>, 0, "")

\* tool_result.h is not part of the sources: a ToolResult is an output or
\* an error with a message; has_error, output, error, recover and
\* from_exception are taken by their names and their use in part_004 and
\* in error_recovery_callback.h
ToolResultOk(out) == [error |-> FALSE, output |-> out, message |-> ""]
ToolResultError(m) == [error |-> TRUE, output |-> Text(""), message |-> m]

\* part_004:87
EmptyResult == ToolResultOk(Text(""))

\* part_004:245-282: the what() of the exceptions the dispatch raises
ToolErrorWhat(name, m) == "Tool '" \o name \o "' error: " \o m

\* a variant with another text for the unknown tool
ToolNotFoundErrorUntagged(name) == ToolErrorWhat(name, "lookup failed")

ToolNotFoundError(name) == ToolErrorWhat(name, "tool not found")

\* a variant whose text does not name the tool
ToolArgumentErrorUnnamed(name, m) == "invalid arguments - " \o m

\* part_004:274-282
ToolArgumentError(name, m) == ToolErrorWhat(name, "invalid arguments - " \o m)

\* the what() of json::parse_error and of an exception a tool raises
ParseErrorWhat == "parse error"
ToolExecutionError == "execution failed"

\* part_004:295-320: the message a hook gives to ToolExecutionSkipped
SkipMessage == "cancelled by user"

NoOutcome == [kind |-> "none", tool |-> "", response |-> Text("")]

\* the before_tool_execution hooks of the current tool call have not all
\* run
NotHooked == [name |-> "", arguments |-> ""]

\* load_or_create_cache has not ended
NoReturn == [kind |-> "none", value |-> FALSE]

\* a variant that inserts the instructions without looking at the list
ensure_system_message_always(msgs) ==
    IF instructions # ""
    THEN <<Msg("system", Text(instructions), <<>>, 0, "")>> \o msgs
    ELSE msgs

\* part_004:22-37
ensure_system_message(msgs) ==
    IF instructions # ""
    THEN LET has_instructions ==
                 /\ msgs # <<>>
                 /\ msgs[1].role = "system"
                 /\ msgs[1].content = Text(instructions)
         IN  IF ~has_instructions
             THEN <<Msg("system", Text(instructions), <<>>, 0, "")>> \o msgs
             ELSE msgs
    ELSE msgs

\* history entries: a step of the loop, or callback cb's hook at a hook
\* point
Event(e) == [e |-> e, cb |-> 0]
HookEvent(e, cb) == [e |-> e, cb |-> cb]

\* a variant in which the chain ends after its first callback
ChainStepFirstOnly(next) == apc' = next /\ cbi' = 1

\* a for loop over the callbacks: after the last one the loop goes on at
\* `next`, otherwise the chain stays at its hook point
ChainStep(next) ==
    IF cbi = NumCallbacks
    THEN apc' = next /\ cbi' = 1
    ELSE apc' = apc /\ cbi' = cbi + 1

\* the conversations run_loop is called with
UserMsg == Msg("user", Text("question"), <<>>, 0, "")

\* the assistant message that ended an earlier run_loop
EarlierAnswer == Msg("assistant", Text("earlier answer"), <<>>, 0, "")

\* a new question, without and with the system message of the Agent
Conversations ==
    {<<UserMsg>>,
     <<Msg("system", Text("be helpful"), <<>>, 0, ""), UserMsg>>}

\* neither run_loop nor load_or_create_cache has been called
NotStarted ==
    /\ lpc = "idle"
    /\ lret = NoReturn
    /\ prompt_tokens = <<>>
    /\ apc = "idle"
    /\ cbi = 1
    /\ parsed_msg = NoMsg
    /\ turn = 0
    /\ emitted = 0
    /\ tc = 0
    /\ tool_name = ""
    /\ tool_arguments = ""
    /\ result = EmptyResult
    /\ tool_skipped = FALSE
    /\ outcome = NoOutcome
    /\ events = <<>>
    /\ call_events = <<>>
    /\ as_hooked = NotHooked

\* an Agent before run_loop is called
AInit ==
    /\ instructions = "be helpful"
    /\ recovery_at \in 0..NumCallbacks
    /\ messages \in Conversations
    /\ NotStarted

\* the Agent is not used
AIdle ==
    /\ AInit
    /\ recovery_at = 0
    /\ messages = <<UserMsg>>

\* part_004:50-54: entry
RunLoopCall ==
    /\ apc = "idle"
    /\ messages' = ensure_system_message(messages)
    /\ apc' = "before_agent_loop"
    /\ cbi' = 1
    /\ UNCHANGED <<config, loc, as_hooked, parsed_msg, turn, emitted, tc, tool_name,
                   tool_arguments, result, tool_skipped, outcome, events,
                   call_events>>
    /\ UNCHANGED <<mvars, cvars, ovars>>

\* part_004:56-58
BeforeAgentLoop ==
    /\ apc = "before_agent_loop"
    /\ events' = Append(events, HookEvent("before_agent_loop", cbi))
    /\ ChainStep("before_llm_call")
    /\ UNCHANGED <<config, loc, as_hooked, messages, parsed_msg, turn, emitted, tc,
                   tool_name, tool_arguments, result, tool_skipped, outcome,
                   call_events>>
    /\ UNCHANGED <<mvars, cvars, ovars>>

\* part_004:62-65: the top of the loop; the history restarts with each
\* turn after the first
BeforeLlmCall ==
    /\ apc = "before_llm_call"
    /\ turn < MaxTurns
    /\ events' = Append(IF cbi = 1 /\ turn > 0 THEN <<>> ELSE events,
                        HookEvent("before_llm_call", cbi))
    /\ ChainStep("generate")
    /\ UNCHANGED <<config, loc, as_hooked, messages, parsed_msg, turn, emitted, tc,
                   tool_name, tool_arguments, result, tool_skipped, outcome,
                   call_events>>
    /\ UNCHANGED <<mvars, cvars, ovars>>

\* the tool calls of one assistant message: ids count on from `first`
ToolCall(id, name, arguments) ==
    [id |-> id, name |-> name, arguments |-> arguments]

\* what the engine asks for: the registered tool with arguments that
\* parse, and an unknown tool with arguments that parse and that do not
\* (a hook can make the other combination)
Requests ==
    {<<"calculator", "{\"a\":3}">>, <<"foo", "{\"a\":3}">>,
     <<"foo", "{\"a\":">>}

ToolCallLists(first, n) ==
    UNION {{[k \in 1..len |-> ToolCall(first + k, req[k][1], req[k][2])] :
              req \in [1..len -> Requests]} :
           len \in 0..n}

\* part_004:67: model->generate returns the parsed assistant message
Generate(calls) ==
    /\ apc = "generate"
    /\ parsed_msg' = Msg("assistant", Text("answer"), calls, 0, "")
    /\ turn' = turn + 1
    /\ emitted' = emitted + Len(calls)
    /\ events' = Append(events, Event("generate"))
    /\ apc' = "after_llm_call"
    /\ cbi' = 1
    /\ UNCHANGED <<config, loc, as_hooked, messages, tc, tool_name, tool_arguments,
                   result, tool_skipped, outcome, call_events>>
    /\ UNCHANGED <<mvars, cvars, ovars>>

\* a variant in which a failed engine call still runs the final hooks
GenerateThrowsThenHooks ==
    /\ apc = "generate"
    /\ turn' = turn + 1
    /\ events' = Append(events, Event("generate"))
    /\ apc' = "after_agent_loop"
    /\ UNCHANGED <<config, loc, as_hooked, cbi, messages, parsed_msg, emitted, tc,
                   tool_name, tool_arguments, result, tool_skipped, outcome,
                   call_events>>
    /\ UNCHANGED <<mvars, cvars, ovars>>

\* a variant in which the failed turn leaves an empty assistant message in
\* the conversation
GenerateThrowsAfterAppend ==
    /\ apc = "generate"
    /\ turn' = turn + 1
    /\ events' = Append(events, Event("generate"))
    /\ messages' = Append(messages, Msg("assistant", Text(""), <<>>, 0, ""))
    /\ outcome' = [kind |-> "ModelError", tool |-> "", response |-> Text("")]
    /\ apc' = "done"
    /\ UNCHANGED <<config, loc, as_hooked, cbi, parsed_msg, emitted, tc,
                   tool_name, tool_arguments, result, tool_skipped,
                   call_events>>
    /\ UNCHANGED <<mvars, cvars, ovars>>

\* part_004:67: model->generate throws a ModelError, which leaves run_loop
GenerateThrows ==
    /\ apc = "generate"
    /\ turn' = turn + 1
    /\ events' = Append(events, Event("generate"))
    /\ outcome' = [kind |-> "ModelError", tool |-> "", response |-> Text("")]
    /\ apc' = "done"
    /\ UNCHANGED <<config, loc, as_hooked, cbi, messages, parsed_msg, emitted, tc,
                   tool_name, tool_arguments, result, tool_skipped,
                   call_events>>
    /\ UNCHANGED <<mvars, cvars, ovars>>

\* part_004:69-71: a hook leaves the message alone or removes its tool
\* calls
AfterLlmCall(act) ==
    /\ apc = "after_llm_call"
    /\ \/ act = "pass" /\ UNCHANGED parsed_msg
       \/ /\ act = "stop"
          /\ parsed_msg.tool_calls # <<>>
          /\ parsed_msg' = [parsed_msg EXCEPT !.tool_calls = <<>>]
    /\ events' = Append(events, HookEvent("after_llm_call", cbi))
    /\ ChainStep("append")
    /\ UNCHANGED <<config, loc, as_hooked, messages, turn, emitted, tc, tool_name,
                   tool_arguments, result, tool_skipped, outcome, call_events>>
    /\ UNCHANGED <<mvars, cvars, ovars>>

\* part_004:83-88: the head of the for loop over the tool calls
BeginToolCall(k) ==
    /\ tc' = k
    /\ tool_name' = parsed_msg.tool_calls[k].name
    /\ tool_arguments' = parsed_msg.tool_calls[k].arguments
    /\ result' = EmptyResult
    /\ tool_skipped' = FALSE
    /\ call_events' = <<>>
    /\ as_hooked' = NotHooked
    /\ apc' = "before_tool_execution"
    /\ cbi' = 1

\* a variant in which the loop ends whatever the assistant message carries
AppendAssistantAndReturn ==
    /\ apc = "append"
    /\ messages' = Append(messages, parsed_msg)
    /\ events' = Append(events, Event("append_assistant"))
    /\ apc' = "after_agent_loop"
    /\ cbi' = 1
    /\ UNCHANGED <<config, loc, as_hooked, parsed_msg, turn, emitted, outcome, tc, tool_name,
                   tool_arguments, result, tool_skipped, call_events>>
    /\ UNCHANGED <<mvars, cvars, ovars>>

\* part_004:73-88: the assistant message joins the conversation; without
\* tool calls the loop ends, otherwise the first tool call begins
AppendAssistant ==
    /\ apc = "append"
    /\ messages' = Append(messages, parsed_msg)
    /\ events' = Append(events, Event("append_assistant"))
    /\ IF parsed_msg.tool_calls = <<>>
       THEN /\ apc' = "after_agent_loop"
            /\ cbi' = 1
            /\ UNCHANGED <<tc, tool_name, tool_arguments, result,
                           tool_skipped, call_events, as_hooked>>
       ELSE BeginToolCall(1)
    /\ UNCHANGED <<config, loc, parsed_msg, turn, emitted, outcome>>
    /\ UNCHANGED <<mvars, cvars, ovars>>

\* a variant in which the loop starts another turn after the final hooks
AfterAgentLoopAgain ==
    /\ apc = "after_agent_loop"
    /\ events' = Append(events, HookEvent("after_agent_loop", cbi))
    /\ IF cbi = NumCallbacks
       THEN apc' = "before_llm_call" /\ cbi' = 1
       ELSE apc' = apc /\ cbi' = cbi + 1
    /\ UNCHANGED <<config, loc, as_hooked, messages, parsed_msg, turn, emitted, tc,
                   tool_name, tool_arguments, result, tool_skipped,
                   call_events, outcome>>
    /\ UNCHANGED <<mvars, cvars, ovars>>

\* part_004:76-80
AfterAgentLoop ==
    /\ apc = "after_agent_loop"
    /\ events' = Append(events, HookEvent("after_agent_loop", cbi))
    /\ IF cbi = NumCallbacks
       THEN /\ apc' = "done"
            /\ cbi' = 1
            /\ outcome' = [kind |-> "returned", tool |-> "",
                           response |-> parsed_msg.content]
       ELSE /\ apc' = apc
            /\ cbi' = cbi + 1
            /\ UNCHANGED outcome
    /\ UNCHANGED <<config, loc, as_hooked, messages, parsed_msg, turn, emitted, tc,
                   tool_name, tool_arguments, result, tool_skipped,
                   call_events>>
    /\ UNCHANGED <<mvars, cvars, ovars>>

\* a variant in which a skip is recorded as an error of the tool
SkippedAsError(m) == ToolResultError(m)

\* part_004:94-98: the result that stands for a skipped tool call
SkippedResult(m) == ToolResultOk(Json("skipped", m))

\* part_004:90-99: one before_tool_execution hook.  It returns, having
\* left or rewritten the name or the arguments, or it throws
\* ToolExecutionSkipped, which ends the chain
BeforeToolExecution(act) ==
    /\ apc = "before_tool_execution"
    /\ call_events' = Append(call_events,
                             HookEvent("before_tool_execution", cbi))
    /\ \/ /\ act = "pass"
          /\ ChainStep("dispatch")
          /\ UNCHANGED <<tool_name, tool_arguments, result, tool_skipped>>
       \/ /\ act = "rename"
          /\ tool_name' \in ToolNames \ {tool_name}
          /\ ChainStep("dispatch")
          /\ UNCHANGED <<tool_arguments, result, tool_skipped>>
       \/ /\ act = "edit"
          /\ tool_arguments' \in ArgTexts \ {tool_arguments}
          /\ ChainStep("dispatch")
          /\ UNCHANGED <<tool_name, result, tool_skipped>>
       \/ /\ act = "skip"
          /\ result' = SkippedResult(SkipMessage)
          /\ tool_skipped' = TRUE
          /\ apc' = "after_tool_execution"
          /\ cbi' = 1
          /\ UNCHANGED <<tool_name, tool_arguments>>
    /\ as_hooked' = IF apc' = "before_tool_execution"
                    THEN as_hooked
                    ELSE [name |-> tool_name', arguments |-> tool_arguments']
    /\ UNCHANGED <<config, loc, messages, parsed_msg, turn, emitted, tc,
                   outcome, events>>
    /\ UNCHANGED <<mvars, cvars, ovars>>

\* ToolResult::from_exception (tool_result.h, not among the sources)
from_exception(what) == ToolResultError(what)

\* what a tool's execute may do: return its output, throw an exception
\* derived from std::exception, or throw a value of any other type
Executions == {"returns", "std_exception", "other_exception"}

\* part_004:101-125: parse the arguments, look the tool up, execute it.
\* The handler at 122 is `catch (const std::exception& e)`: what execute
\* throws is converted into a ToolResult error if it is a std::exception,
\* and leaves run_loop as thrown if it is not
Dispatch(exec) ==
    /\ apc = "dispatch"
    /\ ~tool_skipped
    /\ IF ~ParsesAsJson(tool_arguments)
       THEN /\ exec = "returns"
            /\ result' = from_exception(
                              ToolArgumentError(tool_name, ParseErrorWhat))
            /\ call_events' = Append(call_events, Event("parse"))
            /\ apc' = "after_tool_execution"
            /\ UNCHANGED outcome
       ELSE IF tool_name \notin Registry
       THEN /\ exec = "returns"
            /\ result' = from_exception(ToolNotFoundError(tool_name))
            /\ call_events' =
                   call_events \o <<Event("parse"), Event("lookup")>>
            /\ apc' = "after_tool_execution"
            /\ UNCHANGED outcome
       ELSE /\ call_events' =
                   call_events \o
                       <<Event("parse"), Event("lookup"), Event("execute")>>
            /\ IF exec = "other_exception"
               THEN /\ outcome' = [kind |-> "exception", tool |-> tool_name,
                                   response |-> Text("")]
                    /\ apc' = "done"
                    /\ UNCHANGED result
               ELSE /\ result' = IF exec = "std_exception"
                                 THEN from_exception(ToolExecutionError)
                                 ELSE ToolResultOk(Json("result", tool_name))
                    /\ apc' = "after_tool_execution"
                    /\ UNCHANGED outcome
    /\ cbi' = 1
    /\ UNCHANGED <<config, loc, as_hooked, messages, parsed_msg, turn, emitted, tc,
                   tool_name, tool_arguments, tool_skipped, events>>
    /\ UNCHANGED <<mvars, cvars, ovars>>

\* a variant in which the result keeps its error
RecoveredStillError(r) == ToolResultError(r.message)

\* error_recovery_callback.h:14-24: ToolResult::recover with the error as
\* a JSON text
Recovered(r) == ToolResultOk(Json("error", r.message))

\* what callback cb may do in after_tool_execution to result r.  The
\* ErrorRecoveryCallback (error_recovery_callback.h:14-24) recovers an error
\* and leaves a success; where it is registered, the callbacks after it do
\* not turn a result into an error; any other callback does any of the three
HookActs(cb, r) ==
    IF cb = recovery_at
    THEN {IF r.error THEN "recover" ELSE "pass"}
    ELSE IF recovery_at > 0 /\ cb > recovery_at
    THEN {"pass", "recover"}
    ELSE {"pass", "recover", "fail"}

\* part_004:127-131: one after_tool_execution hook.  It leaves the result,
\* recovers an error as ErrorRecoveryCallback does, replaces a success by
\* an error, or rewrites the tool name, which it is given by reference as
\* the result is
AfterToolExecution(act) ==
    /\ apc = "after_tool_execution"
    /\ act \in HookActs(cbi, result) \cup {"rename"}
    /\ call_events' = Append(call_events,
                             HookEvent("after_tool_execution", cbi))
    /\ \/ act = "pass" /\ UNCHANGED <<result, tool_name>>
       \/ /\ act = "recover"
          /\ result.error
          /\ result' = Recovered(result)
          /\ UNCHANGED tool_name
       \/ /\ act = "fail"
          /\ ~result.error
          /\ result' = ToolResultError("rejected")
          /\ UNCHANGED tool_name
       \/ /\ act = "rename"
          /\ tool_name' \in ToolNames \ {tool_name}
          /\ UNCHANGED result
    /\ ChainStep("decide")
    /\ UNCHANGED <<config, loc, as_hooked, messages, parsed_msg, turn, emitted,
                   tc, tool_arguments, tool_skipped, outcome, events>>
    /\ UNCHANGED <<mvars, cvars, ovars>>

\* a variant in which the error is dropped and the loop starts its next turn
ThrowToolErrorSwallowed ==
    /\ apc = "decide"
    /\ result.error
    /\ call_events' = Append(call_events, Event("throw"))
    /\ apc' = "before_llm_call"
    /\ UNCHANGED <<config, loc, as_hooked, cbi, messages, parsed_msg, turn, emitted, tc,
                   tool_name, tool_arguments, result, tool_skipped, events,
                   outcome>>
    /\ UNCHANGED <<mvars, cvars, ovars>>

\* a variant that takes the messages of the failed turn out of the
\* conversation before it throws
ThrowToolErrorRestores ==
    /\ apc = "decide"
    /\ result.error
    /\ outcome' = [kind |-> "ToolError", tool |-> tool_name,
                   response |->
                       Text(ToolErrorWhat(tool_name, result.message))]
    /\ call_events' = Append(call_events, Event("throw"))
    /\ messages' = Take(messages, Len(messages) - tc)
    /\ apc' = "done"
    /\ UNCHANGED <<config, loc, as_hooked, cbi, parsed_msg, turn, emitted, tc,
                   tool_name, tool_arguments, result, tool_skipped, events>>
    /\ UNCHANGED <<mvars, cvars, ovars>>

\* part_004:133-136: the result is still an error: ToolError leaves
\* run_loop
ThrowToolError ==
    /\ apc = "decide"
    /\ result.error
    /\ outcome' = [kind |-> "ToolError", tool |-> tool_name,
                   response |->
                       Text(ToolErrorWhat(tool_name, result.message))]
    /\ call_events' = Append(call_events, Event("throw"))
    /\ apc' = "done"
    /\ UNCHANGED <<config, loc, as_hooked, cbi, messages, parsed_msg, turn, emitted, tc,
                   tool_name, tool_arguments, result, tool_skipped, events>>
    /\ UNCHANGED <<mvars, cvars, ovars>>

\* a variant that leaves the tool_call_id of the message unset
tool_msg_without_id == Msg("tool", result.output, <<>>, 0, tool_name)

\* part_004:138-142: the message made of the result of the tool call
tool_msg ==
    Msg("tool", result.output, <<>>, parsed_msg.tool_calls[tc].id, tool_name)

\* a variant that starts the next turn after the first tool message of a
\* turn
AppendToolMessageThenNextTurn ==
    /\ apc = "decide"
    /\ ~result.error
    /\ messages' = Append(messages, tool_msg)
    /\ apc' = "before_llm_call"
    /\ cbi' = 1
    /\ parsed_msg' = NoMsg
    /\ tc' = 0
    /\ tool_name' = ""
    /\ tool_arguments' = ""
    /\ result' = EmptyResult
    /\ tool_skipped' = FALSE
    /\ call_events' = <<>>
    /\ as_hooked' = NotHooked
    /\ UNCHANGED <<config, loc, turn, emitted, outcome, events>>
    /\ UNCHANGED <<mvars, cvars, ovars>>

\* part_004:138-145: the tool message joins the conversation; then the
\* next tool call begins, or the locals of the iteration go out of scope
\* and the loop starts its next turn
AppendToolMessage ==
    /\ apc = "decide"
    /\ ~result.error
    /\ messages' = Append(messages, tool_msg)
    /\ IF tc < Len(parsed_msg.tool_calls)
       THEN BeginToolCall(tc + 1) /\ UNCHANGED parsed_msg
       ELSE /\ apc' = "before_llm_call"
            /\ cbi' = 1
            /\ parsed_msg' = NoMsg
            /\ tc' = 0
            /\ tool_name' = ""
            /\ tool_arguments' = ""
            /\ result' = EmptyResult
            /\ tool_skipped' = FALSE
            /\ call_events' = <<>>
            /\ as_hooked' = NotHooked
    /\ UNCHANGED <<config, loc, turn, emitted, outcome, events>>
    /\ UNCHANGED <<mvars, cvars, ovars>>

(***************************************************************************)
(* Agent::load_or_create_cache, part_004:177-207.  The Agent holds a Model *)
(* (the check of line 180 passes).                                         *)
(***************************************************************************)

\* the variables of a run_loop call
loop == <<apc, cbi, messages, parsed_msg, turn, emitted, tc, tool_name,
          tool_arguments, result, tool_skipped, outcome, events, call_events,
          as_hooked>>

\* load_or_create_cache returns value
ReturnValue(value) == [kind |-> "returned", value |-> value]

\* part_004:177-184: entry and std::filesystem::exists(cache_path)
LoadOrCreateCacheCall ==
    /\ lpc = "idle"
    /\ pc = "idle"
    /\ lpc' = IF file # NoFile THEN "load_cache" ELSE "build_prompt_tokens"
    /\ lret' = NoReturn
    /\ prompt_tokens' = <<>>
    /\ UNCHANGED <<config, loop, cvars, ovars>>
    /\ UNCHANGED mvars

\* part_004:186: `!cached_tokens.empty()`
Loaded(cached_tokens) == cached_tokens # <<>>

\* part_004:185-192: model->load_cache; tokens in its result end the call
\* with true, an empty result sends it on to build the cache
LoadOrCreateCacheLoad ==
    /\ lpc = "load_cache"
    /\ \/ load_cache_loaded
       \/ load_cache_not_loaded
    /\ IF Loaded(ret')
       THEN lpc' = "idle" /\ lret' = ReturnValue(TRUE)
       ELSE lpc' = "build_prompt_tokens" /\ UNCHANGED lret
    /\ UNCHANGED <<prompt_tokens, config, loop, cvars, ovars>>

\* part_004:194-204: build_prompt_tokens returns model->tokenize of the
\* templated system prompt (`tokenized`, empty when the tokenizer fails),
\* which becomes prompt_tokens; an empty prompt_tokens ends the call with
\* true, any other is handed to generate_from_tokens without a streaming
\* callback
LoadOrCreateCacheBuild(tokenized) ==
    /\ lpc = "build_prompt_tokens"
    /\ prompt_tokens' = tokenized
    /\ IF prompt_tokens' = <<>>
       THEN /\ lpc' = "idle"
            /\ lret' = ReturnValue(TRUE)
            /\ UNCHANGED mvars
       ELSE /\ Enter("generate_from_tokens", prompt_tokens', FALSE)
            /\ lpc' = "generate_from_tokens"
            /\ UNCHANGED lret
    /\ UNCHANGED <<config, loop, cvars, ovars>>

\* part_004:204: the ModelError of generate_from_tokens leaves
\* load_or_create_cache
LoadOrCreateCacheThrows ==
    /\ lpc = "generate_from_tokens"
    /\ pc = "idle"
    /\ status = "error"
    /\ lpc' = "idle"
    /\ lret' = [kind |-> "ModelError", value |-> FALSE]
    /\ prompt_tokens' = <<>>
    /\ UNCHANGED <<config, loop, cvars, ovars>>
    /\ UNCHANGED mvars

\* part_004:206: generate_from_tokens has returned; the result of
\* model->save_cache is the result of load_or_create_cache
LoadOrCreateCacheSave ==
    /\ lpc = "generate_from_tokens"
    /\ pc = "idle"
    /\ status = "ok"
    /\ \/ save_cache_true /\ lret' = ReturnValue(TRUE)
       \/ save_cache_false /\ lret' = ReturnValue(FALSE)
    /\ lpc' = "idle"
    /\ prompt_tokens' = <<>>
    /\ UNCHANGED <<config, loop, cvars, ovars>>

(***************************************************************************)
(* MCPClient, mcp_tool.cpp:106-393.  The server is reduced to what it      *)
(* answers to each request; a tool definition is reduced to its name.      *)
(***************************************************************************)

\* part_004:286-293: the what() of an MCPError
MCPError(message) == "MCP error: " \o message

\* how an operation of the client ends: `tools` is the list list_tools
\* returns, `flag` the bool initialize returns and the is_error of the
\* MCPToolResult call_tool returns
McpReturned(op, tools, flag) ==
    [op |-> op, kind |-> "returned", what |-> "", tools |-> tools,
     flag |-> flag]
McpThrown(op, what) ==
    [op |-> op, kind |-> "MCPError", what |-> what, tools |-> <<>>,
     flag |-> FALSE]

\* the messages posted to the server: a request or a notification with its
\* method and, for tools/list, the number of the page its cursor asks for
Posted(method, page) == [method |-> method, page |-> page]

\* mcp_tool.cpp:106-121, mcp_client.h:97-107: a client as create returns it
MCPCreated ==
    /\ initialized = FALSE
    /\ has_tools = FALSE
    /\ tools_cached = FALSE
    /\ tool_cache = <<>>
    /\ session_id = ""
    /\ request_id = 0
    /\ sent = <<>>
    /\ answers = <<>>
    /\ mcp_ret = McpReturned("create", <<>>, FALSE)

\* what send_request meets: no response or a status other than 200
\* (mcp_tool.cpp:184-192, thrown before the session id is read), a body that
\* does not parse or carries a JSON-RPC error (208-225, thrown after it),
\* or a result; for initialize also a result whose protocolVersion is not
\* a string (the get of line 274 throws)
Responses == {"http_error", "rpc_error", "result"}
InitializeResponses == Responses \cup {"bad_result"}

\* the Mcp-Session-Id header of a response, "" if it has none
SessionHeaders == {"", "s1"}

\* mcp_tool.cpp:194-198
SessionAfter(resp, header) ==
    IF resp # "http_error" /\ header # "" THEN header ELSE session_id

\* the MCPError send_request throws for a response
SendRequestError(resp) ==
    IF resp = "http_error" THEN MCPError("HTTP error")
                           ELSE MCPError("JSON-RPC error")

\* the capabilities of an initialize result: none, without or with "tools"
Capabilities == {"absent", "no_tools", "tools"}

\* mcp_tool.cpp:257-293.  The session id of the server is read from the
\* response to initialize; later responses repeat it.
MCPInitialize(resp, header, caps) ==
    /\ IF initialized
       THEN /\ mcp_ret' = McpReturned("initialize", <<>>, TRUE)
            /\ sent' = <<>>
            /\ UNCHANGED <<initialized, has_tools, session_id, request_id>>
       ELSE /\ request_id < MaxRequests
            /\ request_id' = request_id + 1
            /\ session_id' = SessionAfter(resp, header)
            /\ IF resp \in {"http_error", "rpc_error"}
               THEN /\ mcp_ret' = McpThrown("initialize",
                                            SendRequestError(resp))
                    /\ sent' = <<Posted("initialize", 0)>>
                    /\ UNCHANGED <<initialized, has_tools>>
               ELSE IF resp = "bad_result"
               THEN /\ mcp_ret' = McpThrown("initialize",
                                            MCPError("Initialization failed: "))
                    /\ sent' = <<Posted("initialize", 0)>>
                    /\ UNCHANGED <<initialized, has_tools>>
               ELSE /\ has_tools' = IF caps = "absent" THEN has_tools
                                                       ELSE caps = "tools"
                    /\ sent' = <<Posted("initialize", 0),
                                 Posted("notifications/initialized", 0)>>
                    /\ initialized' = TRUE
                    /\ mcp_ret' = McpReturned("initialize", <<>>, TRUE)
    /\ answers' = <<>>
    /\ UNCHANGED <<tools_cached, tool_cache>>
    /\ UNCHANGED <<mvars, avars, ovars>>

\* a variant that forgets the cache and the session but stays initialized
MCPCloseKeepsInitialized ==
    /\ tools_cached' = FALSE
    /\ tool_cache' = <<>>
    /\ session_id' = ""
    /\ sent' = <<>>
    /\ mcp_ret' = McpReturned("close", <<>>, FALSE)
    /\ answers' = <<>>
    /\ UNCHANGED <<initialized, has_tools, request_id>>
    /\ UNCHANGED <<mvars, avars, ovars>>

\* mcp_tool.cpp:295-302
MCPClose ==
    /\ initialized' = FALSE
    /\ tools_cached' = FALSE
    /\ tool_cache' = <<>>
    /\ session_id' = ""
    /\ sent' = <<>>
    /\ mcp_ret' = McpReturned("close", <<>>, FALSE)
    /\ answers' = <<>>
    /\ UNCHANGED <<has_tools, request_id>>
    /\ UNCHANGED <<mvars, avars, ovars>>

\* the tools of the server (MCPToolDefinition::name) and the pages it
\* answers tools/list with: each page holds no tool or one, and every page
\* but the last carries a nextCursor
ToolDefinitions == {"add", "echo"}
PageLists ==
    UNION {[1..n -> SeqUpTo(ToolDefinitions, 1)] : n \in 1..MaxPages}

\* the tools of the first n pages, in page order
RECURSIVE AllTools(_, _)
AllTools(pages, n) ==
    IF n = 0 THEN <<>> ELSE AllTools(pages, n - 1) \o pages[n]

\* the answer of the server to the request for page k of `pages`: an error
\* if it fails at that page, otherwise the tools of the page, with a
\* nextCursor unless it is the last page
PageAnswer(pages, fail_at, k) ==
    IF k = fail_at
    THEN [ok |-> FALSE, tools |-> <<>>, next |-> FALSE]
    ELSE [ok |-> TRUE, tools |-> pages[k], next |-> k < Len(pages)]

\* a variant that keeps the tools of the pages fetched before the failure
\* as the cache
MCPListToolsCachesPart(pages, fail_at, resp) ==
    /\ initialized
    /\ has_tools
    /\ ~tools_cached
    /\ LET n == IF fail_at = 0 THEN Len(pages) ELSE fail_at
       IN  /\ request_id + n <= MaxRequests
           /\ request_id' = request_id + n
           /\ sent' = [k \in 1..n |-> Posted("tools/list", k)]
           /\ answers' = [k \in 1..n |-> PageAnswer(pages, fail_at, k)]
           /\ tool_cache' = AllTools(pages, IF fail_at = 0 THEN n ELSE n - 1)
           /\ tools_cached' = TRUE
           /\ mcp_ret' = IF fail_at # 0
                         THEN McpThrown("list_tools", SendRequestError(resp))
                         ELSE McpReturned("list_tools", tool_cache', FALSE)
    /\ UNCHANGED <<initialized, has_tools, session_id>>
    /\ UNCHANGED <<mvars, avars, ovars>>

\* mcp_tool.cpp:304-359.  The server holds `pages`; its answer to the
\* request for page `fail_at` is an error (to none if fail_at = 0).
MCPListTools(pages, fail_at, resp) ==
    /\ IF ~initialized
       THEN /\ mcp_ret' = McpThrown("list_tools",
                                    MCPError("MCP client not initialized"))
            /\ sent' = <<>>
            /\ answers' = <<>>
            /\ UNCHANGED <<tools_cached, tool_cache, request_id>>
       ELSE IF ~has_tools
       THEN /\ mcp_ret' = McpReturned("list_tools", <<>>, FALSE)
            /\ sent' = <<>>
            /\ answers' = <<>>
            /\ UNCHANGED <<tools_cached, tool_cache, request_id>>
       ELSE IF tools_cached
       THEN /\ mcp_ret' = McpReturned("list_tools", tool_cache, FALSE)
            /\ sent' = <<>>
            /\ answers' = <<>>
            /\ UNCHANGED <<tools_cached, tool_cache, request_id>>
       ELSE LET n == IF fail_at = 0 THEN Len(pages) ELSE fail_at
            IN  /\ request_id + n <= MaxRequests
                /\ request_id' = request_id + n
                /\ sent' = [k \in 1..n |-> Posted("tools/list", k)]
                /\ answers' = [k \in 1..n |-> PageAnswer(pages, fail_at, k)]
                /\ IF fail_at # 0
                   THEN /\ mcp_ret' = McpThrown("list_tools",
                                                SendRequestError(resp))
                        /\ UNCHANGED <<tools_cached, tool_cache>>
                   ELSE /\ tool_cache' = AllTools(pages, Len(pages))
                        /\ tools_cached' = TRUE
                        /\ mcp_ret' = McpReturned("list_tools", tool_cache',
                                                  FALSE)
    /\ UNCHANGED <<initialized, has_tools, session_id>>
    /\ UNCHANGED <<mvars, avars, ovars>>

\* mcp_tool.cpp:361-393
MCPCallTool(resp, is_error) ==
    /\ IF ~initialized
       THEN /\ mcp_ret' = McpThrown("call_tool",
                                    MCPError("MCP client not initialized"))
            /\ sent' = <<>>
            /\ UNCHANGED request_id
       ELSE /\ request_id < MaxRequests
            /\ request_id' = request_id + 1
            /\ sent' = <<Posted("tools/call", 0)>>
            /\ mcp_ret' = IF resp = "result"
                          THEN McpReturned("call_tool", <<>>, is_error)
                          ELSE McpThrown("call_tool", SendRequestError(resp))
    /\ answers' = <<>>
    /\ UNCHANGED <<initialized, has_tools, tools_cached, tool_cache,
                   session_id>>
    /\ UNCHANGED <<mvars, avars, ovars>>

(***************************************************************************)
(* OAuthClientImpl (oauth.cpp), OAuthToken (oauth.h) and FileTokenStorage  *)
(* (token_storage.cpp).  A text that passes through url_decode is a        *)
(* sequence of one-character strings.  The clock counts ticks, finer than  *)
(* the seconds the storage keeps.                                          *)
(***************************************************************************)

\* the ticks of system_clock in one second
TicksPerSecond == 2

\* the last tick of the clock
MaxTime == 4

\* the callback requests the server of one flow can be handling
NumHandlers == 2

\* std::chrono::seconds(n) as a duration of the clock
Seconds(n) == n * TicksPerSecond

\* oauth.h:20, the default of is_expired's parameter (60 s, here 1 s)
buffer == Seconds(1)

\* std::optional<OAuthToken>: std::nullopt
NoToken ==
    [has_value |-> FALSE, access_token |-> "", refresh_token |-> "",
     expires_at |-> 0]

\* std::optional<OAuthToken> holding a token (oauth.h:11-17)
OAuthToken(access, refresh, expires) ==
    [has_value |-> TRUE, access_token |-> access, refresh_token |-> refresh,
     expires_at |-> expires]

\* oauth.h:19-23
is_expired(t) == now + buffer >= t.expires_at

\* oauth.h:25
can_refresh(t) == t.refresh_token # ""

\* token_storage.cpp:73-125: what save leaves in the file, expires_at in
\* whole seconds (duration_cast truncates)
SavedToken(t) ==
    [t EXCEPT !.expires_at = t.expires_at \div TicksPerSecond]

\* token_storage.cpp:127-157: what load makes of the file; a missing or
\* unreadable file gives std::nullopt
LoadedToken(j) ==
    IF j.has_value THEN [j EXCEPT !.expires_at = Seconds(j.expires_at)]
    ELSE NoToken

\* the files the storage can hold when the client is constructed
StoredFiles ==
    {NoToken} \cup
    {OAuthToken("a0", r, e) : r \in {"", "r0"}, e \in 1..2}

\* the characters 0x03 .. 0x77 that two hexadecimal digits of 3, 4, 7 name
Chr(n) ==
    CASE n = 3 -> "ETX" [] n = 4 -> "EOT" [] n = 7 -> "BEL"
      [] n = 51 -> "3" [] n = 52 -> "4" [] n = 55 -> "7"
      [] n = 67 -> "C" [] n = 68 -> "D" [] n = 71 -> "G"
      [] n = 115 -> "s" [] n = 116 -> "t" [] n = 119 -> "w"

\* the value of a hexadecimal digit
HexDigit(c) == CASE c = "3" -> 3 [] c = "4" -> 4 [] c = "7" -> 7

IsHexDigit(c) == c \in {"3", "4", "7"}

\* oauth.cpp:55-57: hex_stream >> std::hex >> hex_val on two characters; the
\* extraction skips a leading blank, accepts a sign and stops at the first_callback
\* character that is no digit.  0 - 1 when it fails.
HexVal(c1, c2) ==
    IF IsHexDigit(c1)
    THEN IF IsHexDigit(c2) THEN 16 * HexDigit(c1) + HexDigit(c2)
         ELSE HexDigit(c1)
    ELSE IF c1 \in {"+", " "} /\ IsHexDigit(c2) THEN HexDigit(c2)
    ELSE 0 - 1

RECURSIVE url_decode_from(_, _)
\* oauth.cpp:53-67, the loop from index pos
url_decode_from(value, pos) ==
    IF pos > Len(value) THEN <<>>
    ELSE IF value[pos] = "%" /\ pos + 2 < Len(value) + 1
    THEN IF HexVal(value[pos + 1], value[pos + 2]) >= 0
         THEN <<Chr(HexVal(value[pos + 1], value[pos + 2]))>>
                  \o url_decode_from(value, pos + 3)
         ELSE <<value[pos]>> \o url_decode_from(value, pos + 1)
    ELSE IF value[pos] = "+"
    THEN <<" ">> \o url_decode_from(value, pos + 1)
    ELSE <<value[pos]>> \o url_decode_from(value, pos + 1)

\* oauth.cpp:49-70
url_decode(value) == url_decode_from(value, 1)

RECURSIVE Str(_)
\* the std::string of a text
Str(text) == IF text = <<>> THEN "" ELSE Head(text) \o Str(Tail(text))

\* the strings generate_random_string can give for the state
\* (oauth.cpp:72-93: letters and digits only, never empty)
States == {<<"s", "t">>, <<"t", "s">>}

\* a request to the callback path: the parameters it has and their values
\* as httplib gives them
Request(params, error, error_description, code, state_param) ==
    [params |-> params, error |-> error,
     error_description |-> error_description, code |-> code,
     state |-> state_param]

NoRequest == Request({}, <<>>, <<>>, <<>>, <<>>)

\* httplib::Request::has_param
has_param(req, name) == name \in req.params

\* httplib::Request::get_param_value: empty when the parameter is absent
get_param_value(req, name) == IF has_param(req, name) THEN req[name] ELSE <<>>

\* the requests a browser, or anyone who reaches the port, can make
CallbackRequests ==
    {Request({"code", "state"}, <<>>, <<>>, <<"4">>, s) : s \in States}
    \cup {Request({"code", "state"}, <<>>, <<>>, <<"4", "+", "7">>,
                  <<"%", "7", "3", "t">>),
          Request({"error", "error_description"}, <<"s">>, <<"t", "+", "t">>,
                  <<>>, <<>>),
          Request({"error", "code", "state"}, <<>>, <<>>, <<"4">>,
                  <<"s", "t">>),
          NoRequest}

\* the body of an answer of the token endpoint
Body(valid, access, refresh, expires_in) ==
    [valid |-> valid, access_token |-> access, refresh_token |-> refresh,
     expires_in |-> expires_in]

\* a body json::parse rejects
BadBody == Body(FALSE, "", "", 0)

\* the what() of the json::exception and of the failure of the storage, and
\* the text of a body that is no token
JsonWhat == "parse error"
BodyText == "Bad Request"
SaveWhat == "Failed to open file for writing"

\* httplib::Result: status 0 stands for no result (no connection)
Response(http_status, body) == [status |-> http_status, body |-> body]

TokenResponses ==
    {Response(s, BadBody) : s \in {0, 200, 400, 401, 500}}
    \cup {Response(200, Body(TRUE, "a1", "r1", 2)),
          Response(200, Body(TRUE, "a1", "", 1))}

\* oauth.cpp:574-594, the token of a body that parses
parse_token_response(body) ==
    OAuthToken(body.access_token, body.refresh_token,
               now + Seconds(body.expires_in))

\* part_002:7-14: the what() of an OAuthError
OAuthError(message) == "OAuth error: " \o message

\* part_002:16-23
TokenExchangeError(message) ==
    OAuthError("Token exchange failed: " \o message)

\* part_002:25-32
TokenRefreshError(message) == OAuthError("Token refresh failed: " \o message)

\* part_002:34-41
AuthorizationTimeoutError ==
    OAuthError("Authorization timed out or was cancelled")

\* part_002:43-50
CallbackServerError(message) ==
    OAuthError("Callback server error: " \o message)

\* part_002:52-59
TokenStorageError(message) == OAuthError("Token storage error: " \o message)

\* part_002: the error classes that derive from OAuthError, and OAuthError
OAuthErrorClasses ==
    {"OAuthError", "TokenExchangeError", "TokenRefreshError",
     "AuthorizationTimeoutError", "CallbackServerError", "TokenStorageError"}

\* std::to_string of a status of the token endpoint
StatusString(http_status) ==
    CASE http_status = 200 -> "200" [] http_status = 400 -> "400"
      [] http_status = 401 -> "401" [] http_status = 500 -> "500"

\* how get_token ended: the optional it returned or the class and the
\* what() of the exception that left it
OAuthNone == [kind |-> "none", error |-> "", what |-> "", token |-> NoToken]

OAuthReturned(t) ==
    [kind |-> "returned", error |-> "", what |-> "", token |-> t]

OAuthThrown(class, what) ==
    [kind |-> "thrown", error |-> class, what |-> what, token |-> NoToken]

\* a request posted to the token endpoint and the status of its answer
TokenPost(grant, code, http_status) ==
    [grant |-> grant, code |-> code, status |-> http_status]

\* the callback that was recorded: the handler and its request
First(h, req) == [by |-> h, req |-> req]

NoFirst == First(0, NoRequest)

\* the locals of perform_auth_flow before the server runs (oauth.cpp:409-414)
FlowLocalsFresh ==
    /\ done = FALSE
    /\ received_code = <<>>
    /\ received_state = <<>>
    /\ error_msg = <<>>
    /\ mtx = 0
    /\ hpc = [h \in 1..NumHandlers |-> "none"]
    /\ hreq = [h \in 1..NumHandlers |-> NoRequest]

\* a constructed client on which nothing is called, with an empty storage
OAuthCreated ==
    /\ now = 0
    /\ cached_token = NoToken
    /\ stored = NoToken
    /\ opc = "idle"
    /\ cached = NoToken
    /\ state = <<>>
    /\ FlowLocalsFresh
    /\ replies = [h \in 1..NumHandlers |-> ""]
    /\ first_callback = NoFirst
    /\ posted = <<>>
    /\ url_shown = FALSE
    /\ oret = OAuthNone

flow == <<state, done, received_code, received_state, error_msg, mtx, hpc,
          hreq>>

\* oauth.cpp:409-414 and the end of perform_auth_flow: the locals are gone
FlowLocalsReset ==
    /\ state' = <<>>
    /\ done' = FALSE
    /\ received_code' = <<>>
    /\ received_state' = <<>>
    /\ error_msg' = <<>>
    /\ mtx' = 0
    /\ hpc' = [h \in 1..NumHandlers |-> "none"]
    /\ hreq' = [h \in 1..NumHandlers |-> NoRequest]

\* oauth.cpp:258-272: the call of get_token and its look at the in-memory
\* cache
GetToken ==
    /\ opc = "idle"
    /\ posted' = <<>>
    /\ url_shown' = FALSE
    /\ replies' = [h \in 1..NumHandlers |-> ""]
    /\ first_callback' = NoFirst
    /\ IF cached_token.has_value /\ ~is_expired(cached_token)
       THEN /\ oret' = OAuthReturned(cached_token)
            /\ opc' = "idle"
       ELSE /\ oret' = OAuthNone
            /\ opc' = "get_cached_token"
    /\ UNCHANGED <<now, cached_token, stored, cached, flow>>
    /\ UNCHANGED <<mvars, avars, cvars>>

\* get_token without its refresh: an expired stored token leads to the
\* authorization flow
GetCachedTokenWithoutRefresh ==
    /\ opc = "get_cached_token"
    /\ LET loaded == LoadedToken(stored) IN
         IF loaded.has_value /\ ~is_expired(loaded)
         THEN /\ cached_token' = loaded
              /\ oret' = OAuthReturned(loaded)
              /\ opc' = "idle"
              /\ cached' = NoToken
         ELSE /\ opc' = "perform_auth_flow"
              /\ cached' = NoToken
              /\ UNCHANGED <<cached_token, oret>>
    /\ UNCHANGED <<now, stored, flow, replies, first_callback, posted,
                   url_shown>>
    /\ UNCHANGED <<mvars, avars, cvars>>

\* oauth.cpp:274-296 (and 300-303): the look at the storage and the choice
\* between the stored token, a refresh and the authorization flow
GetCachedToken ==
    /\ opc = "get_cached_token"
    /\ LET loaded == LoadedToken(stored) IN
         IF loaded.has_value /\ ~is_expired(loaded)
         THEN /\ cached_token' = loaded
              /\ oret' = OAuthReturned(loaded)
              /\ opc' = "idle"
              /\ cached' = NoToken
         ELSE IF loaded.has_value /\ can_refresh(loaded)
         THEN /\ opc' = "refresh_token"
              /\ cached' = loaded
              /\ UNCHANGED <<cached_token, oret>>
         ELSE /\ opc' = "perform_auth_flow"
              /\ cached' = NoToken
              /\ UNCHANGED <<cached_token, oret>>
    /\ UNCHANGED <<now, stored, flow, replies, first_callback, posted, url_shown>>
    /\ UNCHANGED <<mvars, avars, cvars>>

\* oauth.cpp:305-357 called at 290, and 291-293
RefreshToken(resp, save_ok) ==
    /\ opc = "refresh_token"
    /\ cached' = NoToken
    /\ IF cached.refresh_token = ""
       THEN /\ opc' = "perform_auth_flow"
            /\ UNCHANGED <<cached_token, stored, posted, oret>>
       ELSE /\ posted' = Append(posted, TokenPost("refresh_token", <<>>,
                                                  resp.status))
            /\ IF resp.status = 0
               THEN /\ oret' = OAuthThrown("TokenRefreshError",
                        TokenRefreshError(
                            "Failed to connect to token endpoint"))
                    /\ opc' = "idle"
                    /\ UNCHANGED <<cached_token, stored>>
               ELSE IF resp.status \in {400, 401}
               THEN /\ cached_token' = NoToken
                    /\ opc' = "perform_auth_flow"
                    /\ UNCHANGED <<stored, oret>>
               ELSE IF resp.status # 200
               THEN /\ oret' = OAuthThrown("TokenRefreshError",
                        TokenRefreshError("Token endpoint returned status "
                                          \o StatusString(resp.status)))
                    /\ opc' = "idle"
                    /\ UNCHANGED <<cached_token, stored>>
               ELSE IF ~resp.body.valid
               THEN /\ oret' = OAuthThrown("TokenRefreshError",
                        TokenRefreshError("Unexpected error: " \o
                            TokenExchangeError(
                                "Failed to parse token response: "
                                \o JsonWhat)))
                    /\ opc' = "idle"
                    /\ UNCHANGED <<cached_token, stored>>
               ELSE IF ~save_ok
               THEN /\ oret' = OAuthThrown("TokenRefreshError",
                        TokenRefreshError("Unexpected error: " \o
                            TokenStorageError(SaveWhat)))
                    /\ opc' = "idle"
                    /\ UNCHANGED <<cached_token, stored>>
               ELSE /\ stored' = SavedToken(parse_token_response(resp.body))
                    /\ cached_token' = parse_token_response(resp.body)
                    /\ oret' = OAuthReturned(cached_token')
                    /\ opc' = "idle"
    /\ UNCHANGED <<now, flow, replies, first_callback, url_shown>>
    /\ UNCHANGED <<mvars, avars, cvars>>

\* what can happen at the start of perform_auth_flow: RAND_bytes fails, the
\* callback server does not start, or it runs
FlowStarts == {"no_random_bytes", "no_server", "running"}

\* oauth.cpp:376-496: the state is generated, the server is started and
\* the authorization URL is handed to auth_url_callback
PerformAuthFlow(s, start) ==
    /\ opc = "perform_auth_flow"
    /\ IF start = "no_random_bytes"
       THEN /\ oret' = OAuthThrown("OAuthError",
                OAuthError("Failed to generate secure random bytes"))
            /\ opc' = "idle"
            /\ UNCHANGED <<state, url_shown>>
       ELSE IF start = "no_server"
       THEN /\ oret' = OAuthThrown("CallbackServerError",
                CallbackServerError("Failed to start callback server"))
            /\ opc' = "idle"
            /\ UNCHANGED <<state, url_shown>>
       ELSE /\ state' = s
            /\ url_shown' = TRUE
            /\ opc' = "wait_for"
            /\ UNCHANGED oret
    /\ UNCHANGED <<now, cached_token, stored, cached, done, received_code,
                   received_state, error_msg, mtx, hpc, hreq, replies, first_callback,
                   posted>>
    /\ UNCHANGED <<mvars, avars, cvars>>

\* the positions of perform_auth_flow at which the callback server runs
ServerRuns == {"wait_for", "error_msg", "received_state", "exchange_code"}

\* httplib calls the handler of the callback path with a request
\* (oauth.cpp:416-418), on the first worker that has had none
CallbackRequest(h, req) ==
    /\ opc \in ServerRuns
    /\ hpc[h] = "none"
    /\ \A g \in 1..(h - 1) : hpc[g] # "none"
    /\ hpc' = [hpc EXCEPT ![h] = "called"]
    /\ hreq' = [hreq EXCEPT ![h] = req]
    /\ UNCHANGED <<now, cached_token, stored, opc, cached, state, done,
                   received_code, received_state, error_msg, mtx, replies,
                   first_callback, posted, url_shown, oret>>
    /\ UNCHANGED <<mvars, avars, cvars>>

\* a handler that goes on without waiting for the mutex
HandlerLockWithoutMutex(h) ==
    /\ hpc[h] = "called"
    /\ mtx' = h
    /\ hpc' = [hpc EXCEPT ![h] = "locked"]
    /\ UNCHANGED <<now, cached_token, stored, opc, cached, state, done,
                   received_code, received_state, error_msg, hreq, replies,
                   first_callback, posted, url_shown, oret>>
    /\ UNCHANGED <<mvars, avars, cvars>>

\* oauth.cpp:419: std::lock_guard<std::mutex> lock(mtx)
HandlerLock(h) ==
    /\ hpc[h] = "called"
    /\ mtx = 0
    /\ mtx' = h
    /\ hpc' = [hpc EXCEPT ![h] = "locked"]
    /\ UNCHANGED <<now, cached_token, stored, opc, cached, state, done,
                   received_code, received_state, error_msg, hreq, replies,
                   first_callback, posted, url_shown, oret>>
    /\ UNCHANGED <<mvars, avars, cvars>>

\* oauth.cpp:421-447: the guard against a second callback, the parameters
\* recorded and the content of the answer
HandlerRecord(h) ==
    /\ hpc[h] = "locked"
    /\ IF done
       THEN /\ replies' = [replies EXCEPT ![h] = "Already processed"]
            /\ mtx' = 0
            /\ hpc' = [hpc EXCEPT ![h] = "answered"]
            /\ hreq' = [hreq EXCEPT ![h] = NoRequest]
            /\ UNCHANGED <<received_code, received_state, error_msg,
                           first_callback>>
       ELSE /\ IF has_param(hreq[h], "error")
               THEN /\ error_msg' =
                        url_decode(get_param_value(hreq[h], "error")) \o
                        (IF has_param(hreq[h], "error_description")
                         THEN <<":", " ">> \o url_decode(
                                  get_param_value(hreq[h],
                                                  "error_description"))
                         ELSE <<>>)
                    /\ UNCHANGED <<received_code, received_state>>
               ELSE IF has_param(hreq[h], "code")
               THEN /\ received_code' =
                        url_decode(get_param_value(hreq[h], "code"))
                    /\ received_state' =
                        url_decode(get_param_value(hreq[h], "state"))
                    /\ UNCHANGED error_msg
               ELSE UNCHANGED <<received_code, received_state, error_msg>>
            /\ replies' = [replies EXCEPT ![h] = "Authorization Complete"]
            /\ first_callback' = IF first_callback.by = 0 THEN First(h, hreq[h]) ELSE first_callback
            /\ hpc' = [hpc EXCEPT ![h] = "recorded"]
            /\ UNCHANGED <<mtx, hreq>>
    /\ UNCHANGED <<now, cached_token, stored, opc, cached, state, done,
                   posted, url_shown, oret>>
    /\ UNCHANGED <<mvars, avars, cvars>>

\* oauth.cpp:449-453: done = true, cv.notify_one(), the end of the lock and
\* of the handler with its request
HandlerDone(h) ==
    /\ hpc[h] = "recorded"
    /\ done' = TRUE
    /\ mtx' = 0
    /\ hpc' = [hpc EXCEPT ![h] = "answered"]
    /\ hreq' = [hreq EXCEPT ![h] = NoRequest]
    /\ UNCHANGED <<now, cached_token, stored, opc, cached, state,
                   received_code, received_state, error_msg, replies,
                   first_callback, posted, url_shown, oret>>
    /\ UNCHANGED <<mvars, avars, cvars>>

\* oauth.cpp:498-505: wait_for gives up with done still false
WaitTimeout ==
    /\ opc = "wait_for"
    /\ mtx = 0
    /\ ~done
    /\ oret' = OAuthThrown("AuthorizationTimeoutError",
                           AuthorizationTimeoutError)
    /\ opc' = "ServerGuard"
    /\ UNCHANGED <<now, cached_token, stored, cached, flow, replies, first_callback,
                   posted, url_shown>>
    /\ UNCHANGED <<mvars, avars, cvars>>

\* oauth.cpp:498-505: wait_for finds done true under the lock
WaitDone ==
    /\ opc = "wait_for"
    /\ mtx = 0
    /\ done
    /\ opc' = "error_msg"
    /\ UNCHANGED <<now, cached_token, stored, cached, flow, replies, first_callback,
                   posted, url_shown, oret>>
    /\ UNCHANGED <<mvars, avars, cvars>>

\* oauth.cpp:509-511
CheckErrorMsg ==
    /\ opc = "error_msg"
    /\ IF error_msg # <<>>
       THEN /\ oret' = OAuthThrown("OAuthError", OAuthError(Str(error_msg)))
            /\ opc' = "ServerGuard"
       ELSE /\ opc' = "received_state"
            /\ UNCHANGED oret
    /\ UNCHANGED <<now, cached_token, stored, cached, flow, replies, first_callback,
                   posted, url_shown>>
    /\ UNCHANGED <<mvars, avars, cvars>>

\* oauth.cpp:513-515
CheckReceivedState ==
    /\ opc = "received_state"
    /\ IF received_state # state
       THEN /\ oret' = OAuthThrown("OAuthError", OAuthError("State mismatch"))
            /\ opc' = "ServerGuard"
       ELSE /\ opc' = "exchange_code"
            /\ UNCHANGED oret
    /\ UNCHANGED <<now, cached_token, stored, cached, flow, replies, first_callback,
                   posted, url_shown>>
    /\ UNCHANGED <<mvars, avars, cvars>>

\* oauth.cpp:536-572 called at 521
ExchangeCode(resp, save_ok) ==
    /\ opc = "exchange_code"
    /\ posted' = Append(posted, TokenPost("authorization_code", received_code,
                                          resp.status))
    /\ opc' = "ServerGuard"
    /\ IF resp.status = 0
       THEN /\ oret' = OAuthThrown("TokenExchangeError",
                TokenExchangeError("Failed to connect to token endpoint"))
            /\ UNCHANGED <<cached_token, stored>>
       ELSE IF resp.status # 200
       THEN /\ oret' = OAuthThrown("TokenExchangeError",
                TokenExchangeError("Token endpoint returned status "
                                   \o StatusString(resp.status) \o ": "
                                   \o BodyText))
            /\ UNCHANGED <<cached_token, stored>>
       ELSE IF ~resp.body.valid
       THEN /\ oret' = OAuthThrown("TokenExchangeError",
                TokenExchangeError("Failed to parse token response: "
                                   \o JsonWhat))
            /\ UNCHANGED <<cached_token, stored>>
       ELSE IF ~save_ok
       THEN /\ oret' = OAuthThrown("TokenStorageError",
                                   TokenStorageError(SaveWhat))
            /\ UNCHANGED <<cached_token, stored>>
       ELSE /\ stored' = SavedToken(parse_token_response(resp.body))
            /\ cached_token' = parse_token_response(resp.body)
            /\ oret' = OAuthReturned(cached_token')
    /\ UNCHANGED <<now, cached, flow, replies, first_callback, url_shown>>
    /\ UNCHANGED <<mvars, avars, cvars>>

\* oauth.cpp:217-245 and 465: leaving perform_auth_flow stops the server
\* and joins its thread, which lets the handlers that were called end
ServerGuardJoin ==
    /\ opc = "ServerGuard"
    /\ \A h \in 1..NumHandlers : hpc[h] \in {"none", "answered"}
    /\ opc' = "idle"
    /\ FlowLocalsReset
    /\ UNCHANGED <<now, cached_token, stored, cached, replies, first_callback, posted,
                   url_shown, oret>>
    /\ UNCHANGED <<mvars, avars, cvars>>

\* oauth.cpp:359-366
ClearTokens ==
    /\ opc = "idle"
    /\ cached_token' = NoToken
    /\ stored' = NoToken
    /\ UNCHANGED <<now, opc, cached, flow, replies, first_callback, posted, url_shown,
                   oret>>
    /\ UNCHANGED <<mvars, avars, cvars>>

\* the positions from which get_token reads the clock next (oauth.cpp:266,
\* 275 and parse_token_response at 345 and 563)
ReadsClock == {"idle", "get_cached_token", "refresh_token", "exchange_code"}

\* system_clock advances; it is seen where the clock is read next
Tick ==
    /\ now < MaxTime
    /\ opc \in ReadsClock
    /\ now' = now + 1
    /\ UNCHANGED <<cached_token, stored, opc, cached, flow, replies, first_callback,
                   posted, url_shown, oret>>
    /\ UNCHANGED <<mvars, avars, cvars>>

\* one Model object of either copy of the class: generation only
Init == MInit /\ AIdle /\ MCPCreated /\ OAuthCreated

Next ==
    \/ \E B \in Inputs, cb \in BOOLEAN : GftCall(B, cb)
    \/ \E B \in Inputs, cb \in BOOLEAN : GenerateCall(B, cb)
    \/ GenerateTokenizeFail
    \/ CatchupOverflow
    \/ CatchupDecode
    \/ CatchupDecodeFail
    \/ SampleEog
    \/ SamplePieceFail
    \/ \E t \in Tokens : SampleOverflow(t)
    \/ \E t \in Tokens : SampleDecode(t)
    \/ \E t \in Tokens : SampleDecodeFail(t)

Spec == Init /\ [][Next]_vars

\* one agent_cpp::Model object (model.cpp) with its cache file
CacheInit == MInit /\ impl = "model_cpp" /\ AIdle /\ MCPCreated /\ OAuthCreated

CacheNext ==
    \/ \E B \in Inputs, cb \in BOOLEAN : GftCall(B, cb)
    \/ \E B \in Inputs, cb \in BOOLEAN : GenerateCall(B, cb)
    \/ GenerateTokenizeFail
    \/ CatchupOverflow
    \/ CatchupDecode
    \/ CatchupDecodeFail
    \/ SampleEog
    \/ SamplePieceFail
    \/ \E t \in Tokens : SampleOverflow(t)
    \/ \E t \in Tokens : SampleDecode(t)
    \/ \E t \in Tokens : SampleDecodeFail(t)
    \/ SaveCache
    \/ SaveCacheFail
    \/ LoadCache
    \/ LoadCacheFail

CacheSpec == CacheInit /\ [][CacheNext]_vars

\* one agent_cpp::Model object and a cache path at which other Model
\* objects, of longer contexts, save their caches too
LimitInit == MInit /\ impl = "model_cpp" /\ AIdle /\ MCPCreated /\ OAuthCreated

LimitNext ==
    \/ \E B \in Inputs, cb \in BOOLEAN : GftCall(B, cb)
    \/ \E B \in Inputs, cb \in BOOLEAN : GenerateCall(B, cb)
    \/ GenerateTokenizeFail
    \/ CatchupOverflow
    \/ CatchupDecode
    \/ CatchupDecodeFail
    \/ SampleEog
    \/ SamplePieceFail
    \/ \E t \in Tokens : SampleOverflow(t)
    \/ \E t \in Tokens : SampleDecode(t)
    \/ \E t \in Tokens : SampleDecodeFail(t)
    \/ SaveCache
    \/ SaveCacheFail
    \/ LoadCache
    \/ LoadCacheFail
    \/ \E f \in OtherFiles : OtherModelSaves(f)

LimitSpec == LimitInit /\ [][LimitNext]_vars


\* one agent_cpp::Model object with its cache file, used directly and
\* through the load_or_create_cache of the Agent that holds it
PromptInit == MInit /\ impl = "model_cpp" /\ AIdle /\ MCPCreated /\ OAuthCreated

PromptNext ==
    \/ lpc = "idle" /\ \E B \in Inputs, cb \in BOOLEAN : GftCall(B, cb)
    \/ lpc = "idle" /\ \E B \in Inputs, cb \in BOOLEAN : GenerateCall(B, cb)
    \/ lpc = "idle" /\ GenerateTokenizeFail
    \/ CatchupOverflow
    \/ CatchupDecode
    \/ CatchupDecodeFail
    \/ SampleEog
    \/ SamplePieceFail
    \/ \E t \in Tokens : SampleOverflow(t)
    \/ \E t \in Tokens : SampleDecode(t)
    \/ \E t \in Tokens : SampleDecodeFail(t)
    \/ lpc = "idle" /\ SaveCache
    \/ lpc = "idle" /\ SaveCacheFail
    \/ lpc = "idle" /\ LoadCache
    \/ lpc = "idle" /\ LoadCacheFail
    \/ LoadOrCreateCacheCall
    \/ LoadOrCreateCacheLoad
    \/ \E B \in Inputs : LoadOrCreateCacheBuild(B)
    \/ LoadOrCreateCacheThrows
    \/ LoadOrCreateCacheSave

PromptSpec == PromptInit /\ [][PromptNext]_vars

\* one Agent object and one run_loop call on it
AgentInit == MInit /\ impl = "model_cpp" /\ AInit /\ MCPCreated /\ OAuthCreated

AgentNext ==
    \/ RunLoopCall
    \/ BeforeAgentLoop
    \/ BeforeLlmCall
    \/ \E calls \in ToolCallLists(emitted, MaxToolCalls - emitted) :
          Generate(calls)
    \/ GenerateThrows
    \/ \E act \in {"pass", "stop"} : AfterLlmCall(act)
    \/ AppendAssistant
    \/ AfterAgentLoop
    \/ \E act \in {"pass", "rename", "edit", "skip"} : BeforeToolExecution(act)
    \/ \E exec \in Executions : Dispatch(exec)
    \/ \E act \in {"pass", "recover", "fail"} : AfterToolExecution(act)
    \/ ThrowToolError
    \/ AppendToolMessage

AgentSpec == AgentInit /\ [][AgentNext]_vars

\* one run_loop call, on a new question or on a conversation an earlier
\* run_loop has completed, that is never held up: the engine, every hook and
\* every tool return or throw, so that whatever step run_loop can take next
\* is taken.  The hooks before a tool call leave it alone or skip it.
LiveInit ==
    /\ MInit
    /\ impl = "model_cpp"
    /\ instructions = "be helpful"
    /\ recovery_at \in {0, 1}
    /\ messages \in {<<UserMsg>>, <<UserMsg, EarlierAnswer>>}
    /\ NotStarted
    /\ MCPCreated
    /\ OAuthCreated

LiveNext ==
    \/ RunLoopCall
    \/ BeforeAgentLoop
    \/ BeforeLlmCall
    \/ \E calls \in ToolCallLists(emitted, MaxToolCalls - emitted) :
          Generate(calls)
    \/ GenerateThrows
    \/ \E act \in {"pass", "stop"} : AfterLlmCall(act)
    \/ AppendAssistant
    \/ AfterAgentLoop
    \/ \E act \in {"pass", "skip"} : BeforeToolExecution(act)
    \/ \E exec \in Executions : Dispatch(exec)
    \/ \E act \in {"pass", "recover", "fail"} : AfterToolExecution(act)
    \/ ThrowToolError
    \/ AppendToolMessage

LiveSpec == LiveInit /\ [][LiveNext]_vars /\ WF_vars(LiveNext)

\* the messages a conversation handed to run_loop is made of
MsgPool ==
    {Msg("system", Text("be helpful"), <<>>, 0, ""),
     Msg("system", Text("other"), <<>>, 0, ""),
     UserMsg, EarlierAnswer}

\* an Agent with or without instructions, and any conversation
SystemInit ==
    /\ MInit
    /\ impl = "model_cpp"
    /\ instructions \in {"", "be helpful"}
    /\ recovery_at = 0
    /\ messages \in SeqUpTo(MsgPool, MaxMsgs)
    /\ NotStarted
    /\ MCPCreated
    /\ OAuthCreated

\* the system-message step of run_loop on each of them
SystemNext == RunLoopCall

SystemSpec == SystemInit /\ [][SystemNext]_vars

\* one run_loop call whose hooks rewrite what they are given by reference:
\* the name and the arguments before the dispatch, the name and the result
\* after it
EditInit ==
    /\ MInit
    /\ impl = "model_cpp"
    /\ instructions = "be helpful"
    /\ recovery_at = 0
    /\ messages = <<UserMsg>>
    /\ NotStarted
    /\ MCPCreated
    /\ OAuthCreated

EditNext ==
    \/ RunLoopCall
    \/ BeforeAgentLoop
    \/ BeforeLlmCall
    \/ \E calls \in ToolCallLists(emitted, MaxToolCalls - emitted) :
          Generate(calls)
    \/ GenerateThrows
    \/ \E act \in {"pass", "stop"} : AfterLlmCall(act)
    \/ AppendAssistant
    \/ AfterAgentLoop
    \/ \E act \in {"pass", "rename", "edit", "skip"} : BeforeToolExecution(act)
    \/ \E exec \in Executions : Dispatch(exec)
    \/ \E act \in {"pass", "recover", "fail", "rename"} :
          AfterToolExecution(act)
    \/ ThrowToolError
    \/ AppendToolMessage

EditSpec == EditInit /\ [][EditNext]_vars

\* one MCPClient object and its server
MCPInit == MInit /\ impl = "model_cpp" /\ AIdle /\ MCPCreated /\ OAuthCreated

MCPNext ==
    \/ \E resp \in InitializeResponses, header \in SessionHeaders,
          caps \in Capabilities :
          MCPInitialize(resp, header, caps)
    \/ MCPClose
    \/ \E pages \in PageLists :
          \E fail_at \in 0..Len(pages), resp \in Responses \ {"result"} :
              MCPListTools(pages, fail_at, resp)
    \/ \E resp \in Responses, is_error \in BOOLEAN :
          MCPCallTool(resp, is_error)

MCPSpec == MCPInit /\ [][MCPNext]_vars

\* one OAuthClientImpl over a storage that holds any file, used by one
\* caller while its callback server answers up to NumHandlers requests
OAuthInit ==
    /\ MInit /\ impl = "model_cpp" /\ AIdle /\ MCPCreated
    /\ now = 0
    /\ cached_token = NoToken
    /\ stored \in StoredFiles
    /\ opc = "idle"
    /\ cached = NoToken
    /\ state = <<>>
    /\ FlowLocalsFresh
    /\ replies = [h \in 1..NumHandlers |-> ""]
    /\ first_callback = NoFirst
    /\ posted = <<>>
    /\ url_shown = FALSE
    /\ oret = OAuthNone

OAuthNext ==
    \/ GetToken
    \/ GetCachedToken
    \/ \E resp \in TokenResponses, save_ok \in BOOLEAN : RefreshToken(resp, save_ok)
    \/ \E s \in States, start \in FlowStarts : PerformAuthFlow(s, start)
    \/ \E h \in 1..NumHandlers, req \in CallbackRequests :
           CallbackRequest(h, req)
    \/ \E h \in 1..NumHandlers : HandlerLock(h)
    \/ \E h \in 1..NumHandlers : HandlerRecord(h)
    \/ \E h \in 1..NumHandlers : HandlerDone(h)
    \/ WaitTimeout
    \/ WaitDone
    \/ CheckErrorMsg
    \/ CheckReceivedState
    \/ \E resp \in TokenResponses, save_ok \in BOOLEAN : ExchangeCode(resp, save_ok)
    \/ ServerGuardJoin
    \/ ClearTokens
    \/ Tick

OAuthSpec == OAuthInit /\ [][OAuthNext]_vars


(***************************************************************************)
(* Properties of Model::generate_from_tokens.                              *)
(***************************************************************************)

\* the length of the longest common prefix of a and b, by its definition
LongestCommonPrefix(a, b) ==
    CHOOSE c \in 0..Min(Len(a), Len(b)) :
        /\ Take(a, c) = Take(b, c)
        /\ c < Min(Len(a), Len(b)) => a[c + 1] # b[c + 1]

\* the tokens sampled and decoded so far by the running call
Generated == [k \in 1..Len(response) |-> response[k].piece]

\* C1: with A the cache at the call and B the new tokens, while the catch-up
\* runs the tokens fed to the engine are B[c..i) and, once it has completed
\* (every batch fitted and decoded), exactly B[c..len(B)), in order, where c
\* is the length of the longest common prefix of A and B: len(B) - c tokens
\* are decoded and none of B[0..c) is decoded again.
C1_CatchupFeedsSuffix ==
    LET c == LongestCommonPrefix(A0, all_tokens)
    IN  /\ pc = "catchup" =>
               /\ c <= i
               /\ fed = SubSeq(all_tokens, c + 1, i)
        /\ pc = "sample" =>
               /\ fed = Drop(all_tokens, c)
               /\ Len(fed) = Len(all_tokens) - c

\* the catch-up has completed on a cache that shares a proper, non-empty
\* prefix with the new tokens
C1_Witness ==
    /\ pc = "sample"
    /\ LongestCommonPrefix(A0, all_tokens) > 0
    /\ LongestCommonPrefix(A0, all_tokens) < Len(A0)
    /\ fed # <<>>

\* C2: when the common prefix c is shorter than the cache, then from the
\* first moment a token can be fed the context memory, processed_tokens and
\* n_past hold the c common tokens followed only by what this call has
\* decoded: nothing of the old sequence beyond c is present at any decode.
C2_StaleStateForgotten ==
    (pc \in {"catchup", "sample"} /\ common_prefix < Len(A0)) =>
        LET fresh == Take(A0, common_prefix) \o fed \o Generated
        IN  /\ kv = fresh
            /\ processed_tokens = fresh
            /\ n_past = Len(fresh)

\* a diverging call in the middle of its catch-up, one batch decoded
C2_Witness ==
    /\ pc = "catchup"
    /\ common_prefix < Len(A0)
    /\ fed # <<>>

\* C3: whenever no Model operation is running (each one has returned or
\* has failed), n_past is the length of processed_tokens.
C3_PositionIsLength ==
    pc = "idle" => n_past = Len(processed_tokens)

\* generate_from_tokens has failed on a full context after part of the
\* catch-up was decoded
C3_Witness ==
    /\ pc = "idle"
    /\ status = "error"
    /\ err = "context size exceeded"
    /\ n_past > 0

\* C4: a catch-up batch that does not fit in the context makes the call
\* fail with the context-overflow error, with nothing of the batch decoded
\* or recorded and nothing generated.
C4_CatchupOverflowFails ==
    [][(pc = "catchup" /\ n_past + batch_size > n_ctx) =>
           /\ status' = "error"
           /\ err' = "context size exceeded"
           /\ UNCHANGED <<kv, processed_tokens, n_past, response>>]_vars

\* C5: a sampled token that no longer fits in the context makes the call
\* fail with an error; the call does not return the text so far as its
\* result.
C5_GenerationOverflowFails ==
    [][(pc = "sample" /\ n_past + 1 > n_ctx /\ response' # response) =>
           status' = "error"]_vars

(***************************************************************************)
(* Properties of Model::save_cache and Model::load_cache.                  *)
(***************************************************************************)

\* C6: a load_cache that fails leaves processed_tokens and n_past as they
\* were and returns the empty vector; a load_cache changes them only by
\* adopting the whole token list of the file.
C6_FailedLoadKeepsCache ==
    [][(pc = "idle" /\ last_op' = "load_cache") =>
           \/ /\ status' = "error"
              /\ ret' = <<>>
              /\ UNCHANGED <<processed_tokens, n_past>>
           \/ /\ status' = "ok"
              /\ processed_tokens' = file.tokens
              /\ n_past' = Len(file.tokens)
              /\ ret' = file.tokens]_vars

\* load_cache has failed on an unreadable file while the cache was not
\* empty
C6_Witness ==
    /\ last_op = "load_cache"
    /\ status = "error"
    /\ file.state = "corrupt"
    /\ processed_tokens # <<>>

\* C7: after a successful load_cache the Model and its context are as they
\* were at the save_cache that wrote the file, so generate_from_tokens finds
\* the same common prefix for every B as it would have at save time.
C7_SaveLoadRoundTrip ==
    (last_op = "load_cache" /\ status = "ok") =>
        /\ saved.valid
        /\ processed_tokens = saved.tokens
        /\ n_past = saved.n_past
        /\ kv = saved.kv
        /\ logits_current = saved.logits_current
        /\ \A B \in Inputs :
               CommonPrefixScan(processed_tokens, B) =
                   CommonPrefixScan(saved.tokens, B)

\* a full cache has been saved and loaded back
C7_Witness ==
    /\ last_op = "load_cache"
    /\ status = "ok"
    /\ Len(processed_tokens) = n_ctx
    /\ ret = processed_tokens

(***************************************************************************)
(* Properties of Agent::run_loop.                                          *)
(***************************************************************************)

\* the hook e of every registered callback, once, in registration order
HookSeq(e) == [k \in 1..NumCallbacks |-> HookEvent(e, k)]

\* the entries of a history that are invocations of hook e
HooksIn(log, e) == SelectSeq(log, LAMBDA ev : ev.e = e /\ ev.cb > 0)

\* the last n entries of a history
Last(log, n) == SubSeq(log, Len(log) - n + 1, Len(log))

C9_EveryCallbackAtEveryHookPoint ==
    /\ (apc = "before_llm_call" /\ turn = 0) =>
           HooksIn(events, "before_agent_loop") = HookSeq("before_agent_loop")
    /\ apc = "generate" =>
           HooksIn(events, "before_llm_call") = HookSeq("before_llm_call")
    /\ apc = "append" =>
           HooksIn(events, "after_llm_call") = HookSeq("after_llm_call")
    /\ apc \in {"dispatch", "after_tool_execution", "decide"} =>
           HooksIn(call_events, "before_tool_execution") =
               HookSeq("before_tool_execution")
    /\ apc = "decide" =>
           HooksIn(call_events, "after_tool_execution") =
               HookSeq("after_tool_execution")
    /\ (apc = "done" /\ outcome.kind = "returned") =>
           HooksIn(events, "after_agent_loop") = HookSeq("after_agent_loop")

\* the events of the first turn of a run that returns a response, and of
\* each later turn
FirstTurn ==
    HookSeq("before_agent_loop") \o HookSeq("before_llm_call")
        \o <<Event("generate")>> \o HookSeq("after_llm_call")
        \o <<Event("append_assistant")>> \o HookSeq("after_agent_loop")
LaterTurn ==
    HookSeq("before_llm_call")
        \o <<Event("generate")>> \o HookSeq("after_llm_call")
        \o <<Event("append_assistant")>> \o HookSeq("after_agent_loop")

\* the history is that of the first turn: no engine call has been made, or
\* the one made is in the history
InFirstTurn ==
    \/ turn = 0
    \/ turn = 1 /\ \E k \in 1..Len(events) : events[k] = Event("generate")

\* C10: the events of a turn follow the lifecycle order: the
\* before_agent_loop hooks in the first turn only and before the engine call,
\* then the before_llm_call hooks, one generate, the after_llm_call hooks
\* and the append of the assistant message; the after_agent_loop hooks come
\* after all of these, nothing follows them but the return, and a run has
\* them all if it returned a response and none if it ended otherwise.
C10_LifecycleOrder ==
    /\ IsPrefix(events, IF InFirstTurn THEN FirstTurn ELSE LaterTurn)
    /\ apc = "generate" => Len(messages) >= 1
    /\ HooksIn(events, "after_agent_loop") # <<>> =>
           /\ apc \in {"after_agent_loop", "done"}
           /\ parsed_msg.tool_calls = <<>>
           /\ messages[Len(messages)] = parsed_msg
    /\ apc = "done" =>
           IF outcome.kind = "returned"
           THEN /\ events = (IF InFirstTurn THEN FirstTurn ELSE LaterTurn)
                /\ outcome.response = parsed_msg.content
           ELSE HooksIn(events, "after_agent_loop") = <<>>

\* a run has returned a response in its second turn, after a tool call
C10_Witness ==
    /\ apc = "done"
    /\ outcome.kind = "returned"
    /\ turn = 2
    /\ \E k \in 1..Len(messages) : messages[k].role = "tool"

\* C11: when the result of a tool call is still an error once the
\* after_tool_execution hooks have run, the next step of run_loop is its end
\* with a ToolError naming the tool: the conversation, the number of engine
\* calls and the hooks run stay as they are, no later tool call of the
\* message begins and no response is returned; after its end run_loop does
\* nothing more.
C11_ErrorAbortsLoop ==
    [][/\ (apc = "decide" /\ result.error) =>
              /\ apc' = "done"
              /\ outcome'.kind = "ToolError"
              /\ outcome'.tool = tool_name
              /\ UNCHANGED <<messages, turn, tc, events>>
              /\ HooksIn(events', "after_agent_loop") = <<>>
       /\ apc = "done" => UNCHANGED avars]_vars

\* run_loop has failed on the first of two tool calls of a message
C11_Witness ==
    /\ apc = "done"
    /\ outcome.kind = "ToolError"
    /\ tc = 1
    /\ Len(parsed_msg.tool_calls) = 2
    /\ messages[Len(messages)] = parsed_msg

C13_ToolExceptionNeverPropagates ==
    /\ outcome.kind \in {"none", "returned", "ToolError", "ModelError"}
    /\ (apc = "done" /\ outcome.kind = "ToolError") => outcome.tool = tool_name

\* the tool call as the engine emitted it
EmittedCall == parsed_msg.tool_calls[tc]

\* the hooks before the dispatch have all run and left the call alone
DispatchedAsEmitted ==
    /\ apc = "after_tool_execution"
    /\ cbi = 1
    /\ ~tool_skipped
    /\ tool_name = EmittedCall.name
    /\ tool_arguments = EmittedCall.arguments

NoDispatchIn(log) ==
    \A k \in 1..Len(log) :
        log[k] \notin {Event("parse"), Event("lookup"), Event("execute")}

\* C15: a skip raised in before_tool_execution takes the call straight to
\* the after_tool_execution hooks with a result that is no error; for a
\* skipped call the arguments are never parsed, no tool is looked up or
\* executed; and unless a hook has made an error of the result, the decision
\* appends a tool message for the call and goes on to the next tool call or
\* the next turn.
C15_SkipBypassesDispatch ==
    [][/\ (~tool_skipped /\ tool_skipped') =>
              /\ apc' = "after_tool_execution"
              /\ cbi' = 1
              /\ ~result'.error
       /\ tool_skipped' => (apc' # "dispatch" /\ NoDispatchIn(call_events'))
       /\ (apc = "decide" /\ tool_skipped /\ ~result.error) =>
              /\ Len(messages') = Len(messages) + 1
              /\ messages'[Len(messages')].role = "tool"
              /\ messages'[Len(messages')].tool_call_id = EmittedCall.id
              /\ apc' \in {"before_tool_execution", "before_llm_call"}
              /\ outcome' = NoOutcome]_vars

\* the first tool call of a message was skipped and the second has begun
C15_Witness ==
    /\ apc = "before_tool_execution"
    /\ tc = 2
    /\ messages[Len(messages)].role = "tool"
    /\ messages[Len(messages)].content.json = "skipped"
    /\ messages[Len(messages)].tool_call_id = parsed_msg.tool_calls[1].id

\* C16: the result made for a skipped tool call, whose output is the
\* content of the tool message unless an after_tool_execution hook rewrites
\* it, has the message of the skip signal as its output.
C16_SkipContentIsSkipMessage ==
    (apc = "after_tool_execution" /\ cbi = 1 /\ tool_skipped) =>
        result.output = Text(SkipMessage)

\* the tool calls of the assistant message at position k have each their
\* tool message, in order, right after it
Answered(k) ==
    /\ Len(messages) >= k + Len(messages[k].tool_calls)
    /\ \A j \in 1..Len(messages[k].tool_calls) :
           /\ messages[k + j].role = "tool"
           /\ messages[k + j].tool_call_id = messages[k].tool_calls[j].id

\* the assistant messages in the conversation
AssistantAt == {k \in 1..Len(messages) : messages[k].role = "assistant"}

\* C17: while tool calls are handled the assistant message of the turn
\* carries tool calls; the final hooks run only in a turn whose assistant
\* message, as the after_llm_call hooks left it, carries none, with no tool
\* call handled in that turn; and a run that has returned a response made
\* one engine call per assistant message, the last of them is the only one
\* without tool calls, and every tool call of the earlier ones was handled.
C17_ReturnsInFirstTurnWithoutToolCalls ==
    /\ apc \in {"before_tool_execution", "dispatch", "after_tool_execution",
                "decide"} =>
           (parsed_msg.tool_calls # <<>> /\ tc \in 1..Len(parsed_msg.tool_calls))
    /\ apc = "after_agent_loop" =>
           /\ parsed_msg.tool_calls = <<>>
           /\ messages[Len(messages)] = parsed_msg
           /\ tc = 0 /\ call_events = <<>>
    /\ (apc = "done" /\ outcome.kind = "returned") =>
           /\ parsed_msg.tool_calls = <<>>
           /\ messages[Len(messages)] = parsed_msg
           /\ tc = 0 /\ call_events = <<>>
           /\ Cardinality(AssistantAt) = turn
           /\ \A k \in AssistantAt \ {Len(messages)} :
                  messages[k].tool_calls # <<>> /\ Answered(k)

\* a run has returned in its second turn, after the two tool calls of its
\* first turn were handled
C17_Witness ==
    /\ apc = "done"
    /\ outcome.kind = "returned"
    /\ turn = 2
    /\ \E k \in AssistantAt : Len(messages[k].tool_calls) = 2

(***************************************************************************)
(* Properties of Agent::ensure_system_message.                             *)
(***************************************************************************)

\* the system message that carries the instructions of the Agent
InstructionsMsg == Msg("system", Text(instructions), <<>>, 0, "")

\* C18: with non-empty instructions, the system-message step of run_loop
\* leaves a list whose first message is the system message with the
\* instructions; a list that started with exactly that message is left as it
\* is, any other list gets that one message put in front of its messages,
\* which keep content and order; and the step applied to its own result
\* inserts nothing, so repeated calls do not pile up instruction messages.
C18_SystemMessageEnsuredOnce ==
    [][(apc = "idle" /\ apc' # "idle" /\ instructions # "") =>
           /\ messages'[1] = InstructionsMsg
           /\ IF messages # <<>> /\ messages[1] = InstructionsMsg
              THEN messages' = messages
              ELSE /\ Len(messages') = Len(messages) + 1
                   /\ \A k \in 1..Len(messages) : messages'[k + 1] = messages[k]
           /\ LET after == messages'
              IN  ensure_system_message(after) = after]_vars

\* the instructions were put in front of a list that started with another
\* system message
C18_Witness ==
    /\ apc = "before_agent_loop"
    /\ instructions # ""
    /\ Len(messages) >= 3
    /\ messages[1] = InstructionsMsg
    /\ messages[2].role = "system"
    /\ messages[2] # InstructionsMsg

(***************************************************************************)
(* Termination of Agent::run_loop.                                         *)
(***************************************************************************)

\* run_loop has returned a response
Returned == apc = "done" /\ outcome.kind = "returned"

\* C19: run_loop ends only by returning a response in a turn whose
\* assistant message carries no tool calls, or with an error; a tool call
\* that succeeded is followed by the next tool call or the next turn, and a
\* loop at the top of a turn has not ended, however many turns it has made;
\* and once the engine has produced an assistant message without tool calls
\* run_loop eventually returns.
C19_EndsOnlyWithoutToolCallsOrByError ==
    /\ [][/\ (apc # "done" /\ apc' = "done") =>
                 \/ /\ outcome'.kind = "returned"
                    /\ apc = "after_agent_loop"
                    /\ parsed_msg.tool_calls = <<>>
                 \/ outcome'.kind \in {"ToolError", "ModelError", "exception"}
          /\ (apc = "decide" /\ ~result.error) =>
                 apc' \in {"before_tool_execution", "before_llm_call"}
          /\ apc' = "before_llm_call" => outcome' = NoOutcome]_vars
    /\ (apc = "append" /\ parsed_msg.tool_calls = <<>>) ~> Returned

\* the engine produced tool calls in every turn the model follows, they
\* all succeeded, and the loop stands at the top of its next turn
C19_Witness ==
    /\ apc = "before_llm_call"
    /\ turn = MaxTurns
    /\ outcome = NoOutcome
    /\ messages[Len(messages)].role = "tool"
    /\ messages[Len(messages)].content.json = "result"

\* the conversation run_loop was called with ends with the assistant
\* message, without tool calls, of an earlier run
StartedTerminal ==
    \E k \in 1..Len(messages) :
        /\ messages[k] = EarlierAnswer
        /\ \A j \in 1..(k - 1) : messages[j].role \in {"system", "user"}

\* C20: a run_loop called on a conversation that already ends with an
\* assistant message without tool calls makes no engine call beyond the one
\* whose result the stop condition is read from, and handles no tool call.
C20_TerminalConversationReturnsAtOnce ==
    StartedTerminal =>
        /\ turn <= 1
        /\ apc \notin {"before_tool_execution", "dispatch",
                       "after_tool_execution", "decide"}

(***************************************************************************)
(* What leaves Agent::run_loop.                                            *)
(***************************************************************************)

\* C21: a run_loop that has ended without returning a response has ended
\* with the ModelError of the engine or with a ToolError that names the tool
\* whose result was still an error; nothing else leaves the loop.
C21_OnlyEngineOrToolErrorEscapes ==
    (apc = "done" /\ outcome.kind # "returned") =>
        \/ outcome.kind = "ModelError" /\ outcome.tool = ""
        \/ /\ outcome.kind = "ToolError"
           /\ outcome.tool = tool_name
           /\ result.error

(***************************************************************************)
(* An empty result of Model::tokenize.                                     *)
(***************************************************************************)

\* C22: a generate whose tokenization is empty (it ends in the step it
\* starts in) ends with an error, and a load_or_create_cache whose prompt
\* tokens are empty (it ends in the step that builds them) does not return
\* true.
C22_EmptyTokenizationFails ==
    [][/\ (pc = "idle" /\ pc' = "idle" /\ last_op' = "generate"
               /\ lpc = "idle" /\ lpc' = "idle") =>
              status' = "error"
       /\ (lpc = "build_prompt_tokens" /\ lpc' = "idle") =>
              lret' # ReturnValue(TRUE)]_vars

(***************************************************************************)
(* The streaming callback of Model::generate_from_tokens.                  *)
(***************************************************************************)

\* the pieces of the tokens recorded after the first n of processed_tokens
PiecesAfter(n) ==
    [k \in 1..(Len(processed_tokens) - n) |-> Piece(processed_tokens[n + k])]

\* C23: what the streaming callback of a call has been given is, at every
\* moment of the call and after it, the response built so far, fragment by
\* fragment (and nothing without a callback); while tokens are sampled the
\* fragments are the pieces of the tokens generated so far, one each, in
\* generation order; and the callback is given one fragment at a time, in
\* the step that samples its token, after all the earlier ones.
C23_StreamedOncePerTokenInOrder ==
    /\ [](/\ has_callback => stream = response
          /\ ~has_callback => stream = <<>>
          /\ pc = "sample" => response = PiecesAfter(Len(all_tokens)))
    /\ [][stream' # stream =>
              \/ pc = "sample" /\ \E t \in Tokens :
                                      stream' = Append(stream, Piece(t))
              \/ pc = "idle" /\ stream' = <<>>]_vars

\* a call with a callback has returned after it generated two different
\* tokens
C23_Witness ==
    /\ pc = "idle"
    /\ status = "ok"
    /\ last_op \in {"generate", "generate_from_tokens"}
    /\ has_callback
    /\ Len(stream) = 2
    /\ stream[1] # stream[2]
    /\ response = stream

(***************************************************************************)
(* The tool messages of Agent::run_loop.                                   *)
(***************************************************************************)

\* the positions of the tool messages in the conversation
ToolMsgAt == {j \in 1..Len(messages) : messages[j].role = "tool"}

\* the assistant message at position k is followed by tool messages only,
\* up to position j, and the one at j carries the id of its (j-k)th tool call
AnswersCallOf(j, k) ==
    /\ messages[k].role = "assistant"
    /\ \A m \in (k + 1)..j : messages[m].role = "tool"
    /\ j - k <= Len(messages[k].tool_calls)
    /\ messages[j].tool_call_id = messages[k].tool_calls[j - k].id

\* C24: every tool message of the conversation follows the assistant
\* message of its turn, with only tool messages of that turn between them,
\* and carries the id of one of that message's tool calls; while tool calls
\* are handled that assistant message is the one the engine returned in this
\* turn, appended before the first tool message of the turn.
C24_ToolMessageAnswersCallOfItsTurn ==
    /\ \A j \in ToolMsgAt : \E k \in 1..(j - 1) : AnswersCallOf(j, k)
    /\ apc \in {"before_tool_execution", "dispatch", "after_tool_execution",
                "decide"} =>
           /\ Len(messages) >= tc
           /\ messages[Len(messages) - (tc - 1)] = parsed_msg
           /\ \A m \in 1..(tc - 1) :
                  messages[Len(messages) - (tc - 1) + m].tool_call_id =
                      parsed_msg.tool_calls[m].id

\* the tool call of the second turn was answered, after the one of the
\* first turn
C24_Witness ==
    /\ turn = 2
    /\ apc = "before_llm_call"
    /\ Cardinality(ToolMsgAt) = 2
    /\ messages[Len(messages)].role = "tool"
    /\ messages[Len(messages)].tool_call_id = 2
    /\ messages[Len(messages) - 1].role = "assistant"
    /\ messages[Len(messages) - 1].tool_calls[1].id = 2

(***************************************************************************)
(* The result of Model::load_cache.                                        *)
(***************************************************************************)

\* C25: a load_cache returns the empty vector exactly when the load has
\* failed, and a load_cache that returns the empty vector has left
\* processed_tokens and n_past as they were.
C25_EmptyResultExactlyOnFailure ==
    [][(pc = "idle" /\ last_op' = "load_cache") =>
           /\ ret' = <<>> <=> status' = "error"
           /\ ret' = <<>> => UNCHANGED <<processed_tokens, n_past>>]_vars

(***************************************************************************)
(* Properties of MCPClient.                                                *)
(***************************************************************************)

\* C26: a client is not initialized when it is created, after close and
\* after an initialize that failed; and a list_tools or call_tool on a
\* client that is not initialized has failed with the MCPError 'MCP client
\* not initialized' and has posted nothing to the server.
C26_UninitializedClientSendsNothing ==
    /\ mcp_ret.op \in {"create", "close"} => ~initialized
    /\ (mcp_ret.op = "initialize" /\ mcp_ret.kind = "MCPError") =>
           ~initialized
    /\ (mcp_ret.op \in {"list_tools", "call_tool"} /\ ~initialized) =>
           /\ mcp_ret.kind = "MCPError"
           /\ mcp_ret.what = "MCP error: MCP client not initialized"
           /\ sent = <<>>

\* call_tool has failed on a client that was initialized, has sent its
\* requests and has then been closed
C26_Witness ==
    /\ mcp_ret.op = "call_tool"
    /\ mcp_ret.kind = "MCPError"
    /\ ~initialized
    /\ has_tools
    /\ request_id > 1
    /\ sent = <<>>

(***************************************************************************)
(* What Model::generate_from_tokens (model.cpp) records.                   *)
(***************************************************************************)

\* C27: a call returns only from its generation loop, on an
\* end-of-generation token, and that step records, decodes and delivers
\* nothing; at the return processed_tokens is the call's tokens B followed
\* by the tokens generated, in order; and during generation processed_tokens
\* changes only by one token appended in a step that has decoded that token
\* and delivered its piece, never in a step that ends the call.
C27_RecordsInputThenGenerated ==
    [][/\ (pc # "idle" /\ pc' = "idle" /\ status' = "ok") =>
              /\ pc = "sample"
              /\ processed_tokens' = all_tokens \o Generated
              /\ UNCHANGED <<processed_tokens, n_past, kv, response, stream>>
       /\ (pc = "sample" /\ processed_tokens' # processed_tokens) =>
              /\ pc' = "sample"
              /\ \E t \in Tokens :
                     /\ processed_tokens' = Append(processed_tokens, t)
                     /\ kv' = Append(kv, t)
                     /\ response' = Append(response, Piece(t))
              /\ logits_current'
              /\ n_past' = n_past + 1]_vars

\* a call has returned after it decoded a token of B and generated a
\* different one
C27_Witness ==
    /\ pc = "idle"
    /\ status = "ok"
    /\ last_op = "generate_from_tokens"
    /\ Len(response) = 1
    /\ Len(processed_tokens) = 2
    /\ processed_tokens[2] = response[1].piece
    /\ processed_tokens[1] # processed_tokens[2]

\* C28: a call whose tokens B have the whole cache as a prefix (the empty
\* cache included) leaves the context memory, processed_tokens and n_past as
\* they are when it starts, and every later step of the call only appends
\* to the context memory and to processed_tokens.
C28_PrefixCacheOnlyExtended ==
    [][/\ (pc = "idle" /\ pc' # "idle"
               /\ IsPrefix(processed_tokens, all_tokens')) =>
              /\ common_prefix' = Len(processed_tokens)
              /\ UNCHANGED <<kv, logits_current, processed_tokens, n_past>>
       /\ (pc # "idle" /\ IsPrefix(A0, all_tokens)) =>
              /\ IsPrefix(processed_tokens, processed_tokens')
              /\ IsPrefix(kv, kv')
              /\ IsPrefix(A0, processed_tokens')
              /\ n_past' >= n_past]_vars

\* the catch-up of a call has extended a cache that was a proper, non-empty
\* prefix of the call's tokens
C28_Witness ==
    /\ pc = "sample"
    /\ A0 # <<>>
    /\ IsPrefix(A0, all_tokens)
    /\ Len(A0) < Len(all_tokens)
    /\ fed # <<>>
    /\ processed_tokens = all_tokens

\* C29: when a call with tokens B (not empty) is about to sample its first
\* token, the context memory holds exactly B and the logits the sampler
\* reads come from a decode that ended on the last token of B.
C29_FirstSampleReflectsInput ==
    (pc = "sample" /\ response = <<>> /\ all_tokens # <<>>) =>
        /\ kv = all_tokens
        /\ logits_current

(***************************************************************************)
(* What the hooks of a tool call rewrite.                                  *)
(***************************************************************************)

\* the positions of run_loop at which a tool call is being handled
ToolStates ==
    {"before_tool_execution", "dispatch", "after_tool_execution", "decide"}

\* the results the dispatch of a tool call with this name and these
\* arguments can give
DispatchResults(name, arguments) ==
    IF ~ParsesAsJson(arguments)
    THEN {ToolResultError("Tool '" \o name
                              \o "' error: invalid arguments - parse error")}
    ELSE IF name \notin Registry
    THEN {ToolResultError("Tool '" \o name \o "' error: tool not found")}
    ELSE {ToolResultOk(Json("result", name)),
          ToolResultError("execution failed")}

\* the call that is dispatched is the call as the before_tool_execution
\* hooks left it, and its result is one that this name and these arguments
\* give
HookedCallDispatched ==
    /\ apc = "dispatch" =>
           as_hooked = [name |-> tool_name, arguments |-> tool_arguments]
    /\ (apc = "after_tool_execution" /\ cbi = 1 /\ ~tool_skipped) =>
           result \in DispatchResults(as_hooked.name, as_hooked.arguments)

\* the assistant message of the turn is in the conversation as the engine
\* call and the after_llm_call hooks left it, and the handling of a tool
\* call only appends to the conversation
StoredCallKept ==
    /\ apc = "idle" \/ IsPrefix(messages, messages')
    /\ apc \in ToolStates =>
           /\ messages[Len(messages) - (tc - 1)] = parsed_msg
           /\ parsed_msg' \in {parsed_msg, NoMsg}

\* C30 as stated: the call as the before_tool_execution hooks left it is
\* the one dispatched, its name is the tool name of the tool message, and
\* the assistant message in the conversation keeps the call as the engine
\* gave it.
C30_HookedNameIsRecorded ==
    /\ []HookedCallDispatched
    /\ [][/\ StoredCallKept
          /\ (apc = "decide" /\ ~result.error) =>
                 messages'[Len(messages')].tool_name = as_hooked.name]_vars

\* C30: the call as the before_tool_execution hooks left it is the one
\* dispatched; the tool name of the tool message is the name as the
\* after_tool_execution hooks left it, which is the name the before hooks
\* left unless one of them has rewritten it; and the assistant message in
\* the conversation keeps the call as the engine gave it.
C30_HookedCallDispatchedAndNameAsLeft ==
    /\ []HookedCallDispatched
    /\ [][/\ StoredCallKept
          /\ (apc = "decide" /\ ~result.error) =>
                 messages'[Len(messages')].tool_name = tool_name
          /\ (apc = "after_tool_execution" /\ tool_name' # tool_name) =>
                 (apc' \in {"after_tool_execution", "decide"}
                     /\ result' = result)]_vars

\* the engine asked for the unknown tool foo with arguments that do not
\* parse, the hooks before the dispatch made it a call of the calculator
\* with arguments that parse, the calculator ran and its result was
\* appended under its name, after the assistant message with the call as
\* the engine gave it
C30_Witness ==
    /\ Len(messages) >= 2
    /\ messages[Len(messages)].role = "tool"
    /\ messages[Len(messages)].tool_name = "calculator"
    /\ messages[Len(messages)].content = Json("result", "calculator")
    /\ messages[Len(messages) - 1].role = "assistant"
    /\ messages[Len(messages) - 1].tool_calls[1].name = "foo"
    /\ ~ParsesAsJson(messages[Len(messages) - 1].tool_calls[1].arguments)

\* C31: a tool call that was not skipped and whose arguments, as the
\* before_tool_execution hooks left them, do not parse reaches the
\* after_tool_execution hooks with an error that names the tool and the
\* invalid arguments; the parse is the only step of the dispatch taken for
\* it: no tool has been looked up and none executed.
C31_UnparsedArgumentsEndDispatch ==
    (apc \in {"after_tool_execution", "decide"} /\ ~tool_skipped
         /\ ~ParsesAsJson(tool_arguments)) =>
        /\ \A k \in 1..Len(call_events) :
               call_events[k] \notin {Event("lookup"), Event("execute")}
        /\ \E k \in 1..Len(call_events) : call_events[k] = Event("parse")
        /\ (apc = "after_tool_execution" /\ cbi = 1) =>
               /\ result.error
               /\ result.message =
                      "Tool '" \o tool_name
                          \o "' error: invalid arguments - parse error"

\* the engine asked for the calculator with arguments that parse, a hook
\* before the dispatch replaced them by a text that does not, and the
\* after_tool_execution hooks are about to get the error
C31_Witness ==
    /\ apc = "after_tool_execution"
    /\ cbi = 1
    /\ ~tool_skipped
    /\ tool_name = "calculator"
    /\ ParsesAsJson(EmittedCall.arguments)
    /\ ~ParsesAsJson(tool_arguments)
    /\ result.message =
           "Tool 'calculator' error: invalid arguments - parse error"

\* the history of the current turn has no entry of this kind
NoneIn(log, e) == \A k \in 1..Len(log) : log[k].e # e

\* C32: the engine call that fails ends run_loop with the ModelError in
\* that very step and leaves the conversation as it was; in the turn that
\* failed the engine was called once, no assistant message was appended and
\* no after_llm_call and no after_agent_loop hook has run; and a run_loop
\* that has ended takes no further step, so the engine is not called again.
C32_EngineFailureEndsRunLoop ==
    /\ [][/\ (apc = "generate" /\ outcome'.kind = "ModelError") =>
                 /\ apc' = "done"
                 /\ messages' = messages
                 /\ turn' = turn + 1
          /\ apc # "done"]_vars
    /\ []((apc = "done" /\ outcome.kind = "ModelError") =>
              /\ events[Len(events)] = Event("generate")
              /\ Len(SelectSeq(events, LAMBDA ev : ev.e = "generate")) = 1
              /\ NoneIn(events, "append_assistant")
              /\ NoneIn(events, "after_llm_call")
              /\ NoneIn(events, "after_agent_loop")
              /\ messages[Len(messages)].role # "assistant"
                     \/ messages[Len(messages)] = EarlierAnswer)

\* the engine failed in the second turn of a run_loop, after the turn of a
\* tool call whose tool message ends the conversation
C32_Witness ==
    /\ apc = "done"
    /\ outcome.kind = "ModelError"
    /\ turn = 2
    /\ messages[Len(messages)].role = "tool"
    /\ events[Len(events)] = Event("generate")

(***************************************************************************)
(* The size of the cache.                                                  *)
(***************************************************************************)

\* C33: in every state n_past is the number of tokens recorded in
\* processed_tokens and is at most the context length, whatever calls of
\* generate, generate_from_tokens, save_cache and load_cache have returned
\* or failed, on cache files of any Model.
C33_CacheWithinContext ==
    /\ Len(processed_tokens) = n_past
    /\ n_past <= n_ctx

\* load_cache has failed on a file that holds one token more than the
\* context, and the cache, which fills the context, is as it was
C33_Witness ==
    /\ pc = "idle"
    /\ last_op = "load_cache"
    /\ status = "error"
    /\ Len(file.tokens) > n_ctx
    /\ n_past = n_ctx

(***************************************************************************)
(* The conversation run_loop leaves to its caller.                         *)
(***************************************************************************)

\* the conversation as run_loop found it, with the instructions in front
Opening == <<Msg("system", Text(instructions), <<>>, 0, ""), UserMsg>>

\* C34: when run_loop has ended with a ToolError on tool call number tc of
\* a turn, the conversation ends with the assistant message of that turn
\* and the tool messages of its first tc - 1 tool calls, in their order, and
\* holds nothing for the later ones; before them it holds what it held
\* when the turn began: the opening messages and, for each earlier turn, its
\* assistant message with the tool messages of all its tool calls.
C34_AbortKeepsWhatWasAppended ==
    (apc = "done" /\ outcome.kind = "ToolError") =>
        LET a == Len(messages) - (tc - 1)
        IN  /\ tc \in 1..Len(parsed_msg.tool_calls)
            /\ a > Len(Opening)
            /\ messages[a] = parsed_msg
            /\ messages[a].role = "assistant"
            /\ \A j \in 1..(tc - 1) :
                   /\ messages[a + j].role = "tool"
                   /\ messages[a + j].tool_call_id =
                          parsed_msg.tool_calls[j].id
            /\ IsPrefix(Opening, messages)
            /\ Cardinality(AssistantAt) = turn
            /\ \A k \in AssistantAt \ {a} : Answered(k)
            /\ Len(messages) =
                   Len(Opening) + turn + (tc - 1)
                       + (emitted - Len(parsed_msg.tool_calls))

\* run_loop has failed on the second of two tool calls of a message; the
\* tool message of the first ends the conversation
C34_Witness ==
    /\ apc = "done"
    /\ outcome.kind = "ToolError"
    /\ tc = 2
    /\ Len(parsed_msg.tool_calls) = 2
    /\ messages[Len(messages)].role = "tool"
    /\ messages[Len(messages)].tool_call_id = parsed_msg.tool_calls[1].id
    /\ messages[Len(messages) - 1] = parsed_msg

\* C35: when run_loop has returned its response, each assistant message
\* it appended is followed at once by one tool message per tool call it
\* carries, in the order of the tool calls, and then by the next assistant
\* message or by nothing; the conversation holds nothing else after its
\* opening messages, and its last message is an assistant message without
\* tool calls, the only such one.
C35_ReturnedConversationIsPaired ==
    (apc = "done" /\ outcome.kind = "returned") =>
        /\ IsPrefix(Opening, messages)
        /\ \A p \in (Len(Opening) + 1)..Len(messages) :
               messages[p].role \in {"assistant", "tool"}
        /\ \A k \in AssistantAt :
               LET n == Len(messages[k].tool_calls)
               IN  /\ k > Len(Opening)
                   /\ Answered(k)
                   /\ \A j \in 1..n :
                          messages[k + j].tool_calls = <<>>
                   /\ IF k + n = Len(messages)
                      THEN n = 0
                      ELSE n > 0 /\ messages[k + n + 1].role = "assistant"
        /\ messages[Len(Opening) + 1].role = "assistant"
        /\ messages[Len(messages)].role = "assistant"

\* run_loop has returned in its second turn; the assistant message of the
\* first carries two tool calls and is followed by their two tool messages
\* and the final assistant message
C35_Witness ==
    /\ apc = "done"
    /\ outcome.kind = "returned"
    /\ Len(messages) = Len(Opening) + 4
    /\ Len(messages[Len(Opening) + 1].tool_calls) = 2
    /\ messages[Len(Opening) + 2].role = "tool"
    /\ messages[Len(Opening) + 3].role = "tool"
    /\ messages[Len(messages)].tool_calls = <<>>

(***************************************************************************)
(* The cache that load_or_create_cache creates.                            *)
(***************************************************************************)

\* C36: a load_or_create_cache that has built the prompt tokens, warmed
\* the cache with them and saved it leaves exactly the prompt tokens in the
\* cache file and in processed_tokens.
C36_CreatedCacheHoldsPromptTokens ==
    [][(lpc = "generate_from_tokens" /\ lpc' = "idle"
            /\ lret' = ReturnValue(TRUE)) =>
           /\ file'.tokens = prompt_tokens
           /\ processed_tokens' = prompt_tokens]_vars

(***************************************************************************)
(* The tool cache of MCPClient.                                            *)
(***************************************************************************)

\* the tools of a sequence of answers, in the order of the answers
RECURSIVE ToolsOf(_)
ToolsOf(as) ==
    IF as = <<>> THEN <<>> ELSE as[1].tools \o ToolsOf(Tail(as))

\* every request of the last operation was answered with a page, and the
\* last page is the only one without a nextCursor
FetchedEveryPage ==
    /\ answers # <<>>
    /\ Len(sent) = Len(answers)
    /\ \A k \in 1..Len(answers) :
           /\ sent[k] = [method |-> "tools/list", page |-> k]
           /\ answers[k].ok
           /\ answers[k].next = (k < Len(answers))

\* C37: the cache becomes filled only in a list_tools call that has asked
\* for every page, was answered each time and returns the tools of the
\* pages in page order, which are then the cache; while the cache is filled
\* only close changes it, and a list_tools call returns it and posts
\* nothing; a list_tools call that has failed leaves the cache unfilled; and
\* an unfilled cache is empty.
C37_ToolCacheFilledByFullListing ==
    /\ [][/\ (~tools_cached /\ tools_cached') =>
                 /\ mcp_ret'.op = "list_tools"
                 /\ mcp_ret'.kind = "returned"
                 /\ FetchedEveryPage'
                 /\ tool_cache' = ToolsOf(answers')
                 /\ mcp_ret'.tools = tool_cache'
          /\ (tools_cached /\ mcp_ret'.op # "close") =>
                 UNCHANGED <<tools_cached, tool_cache>>
          /\ (tools_cached /\ mcp_ret'.op = "list_tools") =>
                 /\ mcp_ret' = McpReturned("list_tools", tool_cache, FALSE)
                 /\ sent' = <<>>
                 /\ UNCHANGED request_id
          /\ (mcp_ret'.op = "list_tools" /\ mcp_ret'.kind = "MCPError") =>
                 ~tools_cached']_vars
    /\ [](~tools_cached => tool_cache = <<>>)

\* a list_tools call has returned the two tools of the cache, which an
\* earlier call fetched in two pages, without posting a request
C37_Witness ==
    /\ tools_cached
    /\ Len(tool_cache) = 2
    /\ mcp_ret = McpReturned("list_tools", tool_cache, FALSE)
    /\ sent = <<>>
    /\ request_id = MaxRequests

\* the parts of the OAuth client's state are of their kinds
OAuthTypeOK ==
    /\ now \in 0..MaxTime
    /\ opc \in {"idle", "get_cached_token", "refresh_token",
                "perform_auth_flow", "ServerGuard"} \cup ServerRuns
    /\ mtx \in 0..NumHandlers
    /\ done \in BOOLEAN

\* an optional that holds a token is_expired does not reject
Unexpired(t) == t.has_value /\ ~is_expired(t)

\* the last request get_token posted was a refresh the server rejected
RefreshRejected(p) ==
    /\ p # <<>>
    /\ p[Len(p)].grant = "refresh_token"
    /\ p[Len(p)].status \in {400, 401}

\* C38: get_token enters the authorization flow only when neither the
\* in-memory token nor the token in the storage is unexpired and a refresh
\* was not possible (the storage gave no token, or one without a refresh
\* token) or was rejected by the server; with an unexpired in-memory token
\* get_token does not leave its first check, and with an unexpired stored
\* token it returns that token from its second: nothing is posted and
\* auth_url_callback is not called
C38_FlowOnlyWithoutUsableToken ==
    [][/\ (opc # "perform_auth_flow" /\ opc' = "perform_auth_flow") =>
              /\ ~Unexpired(cached_token)
              /\ ~Unexpired(LoadedToken(stored))
              /\ \/ ~LoadedToken(stored).has_value
                 \/ LoadedToken(stored).refresh_token = ""
                 \/ RefreshRejected(posted')
       /\ (opc = "idle" /\ Unexpired(cached_token)) =>
              /\ opc' = "idle"
              /\ posted' \in {posted, <<>>}
              /\ url_shown' => url_shown
              /\ oret' # oret => oret' = OAuthReturned(cached_token)
       /\ (opc = "get_cached_token" /\ opc' # opc
              /\ Unexpired(LoadedToken(stored))) =>
              /\ opc' = "idle"
              /\ oret' = OAuthReturned(LoadedToken(stored))
              /\ posted' = <<>>
              /\ ~url_shown']_vars

\* the authorization flow runs after the server rejected a refresh of the
\* expired stored token
C38_Witness ==
    /\ opc = "wait_for"
    /\ url_shown
    /\ RefreshRejected(posted)
    /\ stored.has_value
    /\ ~cached_token.has_value

\* get_token has posted a request that exchanges an authorization code
ExchangePosted(p) ==
    /\ p # <<>>
    /\ p[Len(p)].grant = "authorization_code"

\* C39: perform_auth_flow posts the exchange of the authorization code only
\* when the callback that was processed carried no error parameter and its
\* state parameter equals the state generated for this flow
C39_ExchangeOnlyForTheGeneratedState ==
    [][(posted' # posted /\ ExchangePosted(posted')) =>
           /\ first_callback.by # 0
           /\ ~has_param(first_callback.req, "error")
           /\ get_param_value(first_callback.req, "state") = state]_vars

\* what holds of perform_auth_flow: the exchange is posted only when the
\* processed callback carried no error parameter and its state parameter,
\* decoded by url_decode, equals the generated state, and the code posted
\* is its code parameter decoded by url_decode; a flow that ends at the
\* wait or at one of the two checks ends with an exception of a class
\* that is an OAuthError, with nothing posted, stored or cached
C39_ExchangeOnlyAfterDecodedStateMatches ==
    [][/\ (posted' # posted /\ ExchangePosted(posted')) =>
              /\ first_callback.by # 0
              /\ ~has_param(first_callback.req, "error")
              /\ url_decode(get_param_value(first_callback.req, "state"))
                     = state
              /\ posted'[Len(posted')].code =
                     url_decode(get_param_value(first_callback.req, "code"))
       /\ (opc \in {"wait_for", "error_msg", "received_state"}
              /\ opc' = "ServerGuard") =>
              /\ oret'.kind = "thrown"
              /\ oret'.error \in OAuthErrorClasses
              /\ \/ first_callback.by = 0
                 \/ has_param(first_callback.req, "error")
                 \/ url_decode(get_param_value(first_callback.req, "state"))
                        # state
              /\ UNCHANGED <<posted, stored, cached_token>>
              /\ ~ExchangePosted(posted)
       /\ (opc \in {"error_msg", "received_state"}
              /\ opc' \in {"received_state", "exchange_code"}
              /\ opc' # opc) => UNCHANGED <<posted, stored, cached_token>>
       /\ (opc = "received_state"
              /\ \/ has_param(first_callback.req, "error")
                 \/ url_decode(get_param_value(first_callback.req, "state"))
                        # state) => opc' \in {opc, "ServerGuard"}]_vars

\* a flow has exchanged the code of a callback whose state parameter is the
\* generated state and get_token has returned the token
C39_Witness ==
    /\ ExchangePosted(posted)
    /\ first_callback.by # 0
    /\ get_param_value(first_callback.req, "state") = state
    /\ oret.kind = "returned"
    /\ cached_token = oret.token

\* the error text, the code and the state a callback request stands for
ErrorOf(req) ==
    IF "error" \notin req.params THEN <<>>
    ELSE IF "error_description" \notin req.params THEN url_decode(req.error)
    ELSE url_decode(req.error) \o <<":", " ">>
             \o url_decode(req.error_description)

CodeOf(req) ==
    IF "error" \notin req.params /\ "code" \in req.params
    THEN url_decode(req.code) ELSE <<>>

StateOf(req) ==
    IF "error" \in req.params \/ "code" \notin req.params THEN <<>>
    ELSE IF "state" \in req.params THEN url_decode(req.state) ELSE <<>>

\* the handlers that are inside the handler's body
InHandler == {h \in 1..NumHandlers : hpc[h] \in {"locked", "recorded"}}

\* C40: during one flow at most one callback handler is inside the body at
\* a time, and it holds the mutex; only the first callback is recorded:
\* from the moment it is recorded the code, state and error are the decoded
\* values of that request whatever other requests arrive, every other
\* handler that has ended answered "Already processed", and the waiting
\* thread goes on only after done is set, so that the error it throws and
\* the code it exchanges are those of the first callback
C40_OnlyFirstCallbackIsRecorded ==
    /\ Cardinality(InHandler) <= 1
    /\ \A h \in InHandler : mtx = h
    /\ (first_callback.by = 0 /\ opc # "idle") =>
           /\ ~done
           /\ received_code = <<>> /\ received_state = <<>>
           /\ error_msg = <<>>
    /\ (first_callback.by # 0 /\ opc \in ServerRuns \cup {"ServerGuard"}) =>
           /\ error_msg = ErrorOf(first_callback.req)
           /\ received_code = CodeOf(first_callback.req)
           /\ received_state = StateOf(first_callback.req)
           /\ done <=> hpc[first_callback.by] = "answered"
    /\ \A h \in 1..NumHandlers :
           /\ (hpc[h] = "answered" /\ h # first_callback.by) =>
                  replies[h] = "Already processed"
           /\ (hpc[h] = "answered" /\ h = first_callback.by) =>
                  replies[h] = "Authorization Complete"
    /\ opc \in {"error_msg", "received_state", "exchange_code"} =>
           done /\ first_callback.by # 0
    /\ (opc = "ServerGuard" /\ ExchangePosted(posted)) =>
           posted[Len(posted)].code = CodeOf(first_callback.req)
    /\ (opc = "ServerGuard" /\ ~ExchangePosted(posted)
           /\ first_callback.by # 0 /\ done
           /\ ErrorOf(first_callback.req) # <<>>) =>
           \/ oret.error = "AuthorizationTimeoutError"
           \/ oret.what = "OAuth error: "
                              \o Str(ErrorOf(first_callback.req))

\* the second worker's request was recorded, the first worker's request was
\* answered "Already processed" and the waiting thread has gone on to the
\* exchange
C40_Witness ==
    /\ opc = "exchange_code"
    /\ first_callback.by = 2
    /\ hpc[1] = "answered"
    /\ replies[1] = "Already processed"
    /\ received_code = CodeOf(first_callback.req)

====
